---- MODULE Spec2Model ----
(***************************************************************************)
(* Gentzen natural-deduction engine: formula lexer and parser, canonical    *)
(* rendering, the derivation state (facts, steps, rules) and the bounded    *)
(* breadth-first proof search.                                              *)
(*                                                                          *)
(* A JavaScript string is modelled as a sequence of characters, each        *)
(* character a one-character TLA+ string.  The four non-ASCII operator      *)
(* characters are written U2227 (and), U2228 (or), U2192 (implies) and      *)
(* U2194 (iff), after their code points.                                    *)
(***************************************************************************)
EXTENDS Integers, Sequences, FiniteSets, TLC

\* ------------------------------------------------------------------------
\* Characters
\* ------------------------------------------------------------------------

U2227 == "u2227"
U2228 == "u2228"
U2192 == "u2192"
U2194 == "u2194"

UpperLetters ==
    {"A","B","C","D","E","F","G","H","I","J","K","L","M",
     "N","O","P","Q","R","S","T","U","V","W","X","Y","Z"}

LowerLetters ==
    {"a","b","c","d","e","f","g","h","i","j","k","l","m",
     "n","o","p","q","r","s","t","u","v","w","x","y","z"}

Digits == {"0","1","2","3","4","5","6","7","8","9"}

\* /[A-Za-z]/
IsLetter(c) == c \in UpperLetters \cup LowerLetters

\* /[A-Za-z0-9_]/
IsIdentChar(c) == IsLetter(c) \/ c \in Digits \/ c = "_"

\* /\s/
IsSpace(c) == c \in {" ", "\t"}

\* The value is computed where this stands, not where it is first used
\* (the passes of a loop are computed in order, each on the state the one
\* before left).
Computed(v) == v = v

\* String.prototype.startsWith
StartsWith(s, p) ==
    /\ Len(p) <= Len(s)
    /\ \A i \in 1..Len(p) : s[i] = p[i]

\* String.prototype.slice(n), n >= 0
Slice(s, n) == SubSeq(s, n + 1, Len(s))

\* String.prototype.trim
RECURSIVE TrimLeft(_)
TrimLeft(s) ==
    IF Len(s) > 0 /\ IsSpace(s[1]) THEN TrimLeft(Tail(s)) ELSE s

RECURSIVE TrimRight(_)
TrimRight(s) ==
    IF Len(s) > 0 /\ IsSpace(s[Len(s)])
    THEN TrimRight(SubSeq(s, 1, Len(s) - 1))
    ELSE s

Trim(s) == TrimRight(TrimLeft(s))

\* ------------------------------------------------------------------------
\* formulaLexer.js
\* ------------------------------------------------------------------------

\* OPERATOR_MAPPINGS, keys in insertion order, with the canonical tag.
OPERATOR_MAPPINGS ==
    << [op |-> <<U2227>>,                           tag |-> "and"],
       [op |-> <<"A","N","D">>,                     tag |-> "and"],
       [op |-> <<"&">>,                             tag |-> "and"],
       [op |-> <<U2228>>,                           tag |-> "or"],
       [op |-> <<"O","R">>,                         tag |-> "or"],
       [op |-> <<"|">>,                             tag |-> "or"],
       [op |-> <<U2192>>,                           tag |-> "implies"],
       [op |-> <<"I","M","P","L","I","E","S">>,     tag |-> "implies"],
       [op |-> <<"-",">">>,                         tag |-> "implies"],
       [op |-> <<"=",">">>,                         tag |-> "implies"],
       [op |-> <<U2194>>,                           tag |-> "iff"],
       [op |-> <<"I","F","F">>,                     tag |-> "iff"],
       [op |-> <<"<","-",">">>,                     tag |-> "iff"],
       [op |-> <<"<","=",">">>,                     tag |-> "iff"],
       [op |-> <<"~">>,                             tag |-> "not"],
       [op |-> <<"N","O","T">>,                     tag |-> "not"],
       [op |-> <<"!">>,                             tag |-> "not"] >>

\* The operators of OPERATOR_MAPPINGS that `remaining` starts with.
MatchingOperators(remaining) ==
    { k \in 1..Len(OPERATOR_MAPPINGS) : StartsWith(remaining, OPERATOR_MAPPINGS[k].op) }

\* FormulaLexer.startsOperator at 0-based position pos of input.
startsOperator(input, pos) ==
    /\ pos < Len(input)
    /\ MatchingOperators(Slice(input, pos)) # {}

\* FormulaLexer.readOperator: the keys sorted by length descending (a stable
\* sort), the first one that `remaining` starts with.  Two keys of the same
\* length cannot both match, so this is the longest matching key.
LongestOperator(matching) ==
    CHOOSE k \in matching : \A j \in matching :
        Len(OPERATOR_MAPPINGS[j].op) <= Len(OPERATOR_MAPPINGS[k].op)

\* An operator token that keeps the alias as written.
OperatorTokenRaw(pos, k) ==
    [ token |-> [type |-> "OPERATOR", value |-> OPERATOR_MAPPINGS[k].op,
                 position |-> pos],
      next  |-> pos + Len(OPERATOR_MAPPINGS[k].op) ]

\* The OPERATOR token for key k read at pos, and the position after it.
OperatorToken(pos, k) ==
    [ token |-> [type |-> "OPERATOR", value |-> OPERATOR_MAPPINGS[k].tag,
                 position |-> pos],
      next  |-> pos + Len(OPERATOR_MAPPINGS[k].op) ]

readOperator(input, pos) ==
    OperatorToken(pos, LongestOperator(MatchingOperators(Slice(input, pos))))

\* End (0-based, exclusive) of the run of identifier characters from pos.
RECURSIVE IdentEnd(_, _)
IdentEnd(input, pos) ==
    IF pos < Len(input) /\ IsIdentChar(input[pos + 1])
    THEN IdentEnd(input, pos + 1)
    ELSE pos

\* The IDENTIFIER token for input[pos..end), and the position after it.
IdentifierToken(input, pos, end) ==
    [ token |-> [type |-> "IDENTIFIER", value |-> SubSeq(input, pos + 1, end),
                 position |-> pos],
      next  |-> end ]

\* FormulaLexer.readIdentifier
readIdentifier(input, pos) == IdentifierToken(input, pos, IdentEnd(input, pos))

\* FormulaLexer.skipWhitespace
RECURSIVE skipWhitespace(_, _)
skipWhitespace(input, pos) ==
    IF pos < Len(input) /\ IsSpace(input[pos + 1])
    THEN skipWhitespace(input, pos + 1)
    ELSE pos

\* A token returned by readOperator or readIdentifier.
TokenRead(r) == [error |-> FALSE, next |-> r.next, token |-> r.token]

\* FormulaLexer.getNextToken at a non-whitespace position pos; `error` is set
\* when the lexer throws "Unexpected character".
TokenAt(input, pos) ==
    IF pos >= Len(input)
    THEN [ error |-> FALSE, next |-> pos,
           token |-> [type |-> "EOF", value |-> "null", position |-> pos] ]
    ELSE IF input[pos + 1] = "("
    THEN [ error |-> FALSE, next |-> pos + 1,
           token |-> [type |-> "LPAREN", value |-> "(", position |-> pos] ]
    ELSE IF input[pos + 1] = ")"
    THEN [ error |-> FALSE, next |-> pos + 1,
           token |-> [type |-> "RPAREN", value |-> ")", position |-> pos] ]
    ELSE IF startsOperator(input, pos)
    THEN TokenRead(readOperator(input, pos))
    ELSE IF IsLetter(input[pos + 1])
    THEN TokenRead(readIdentifier(input, pos))
    ELSE [ error |-> TRUE, next |-> pos,
           token |-> [type |-> "ERROR", value |-> input[pos + 1], position |-> pos] ]

\* FormulaLexer.getNextToken from 0-based position pos: skip whitespace,
\* then read one token.
getNextToken(input, pos) == TokenAt(input, skipWhitespace(input, pos))

\* FormulaLexer.tokenize: the tokens up to and including EOF, or the error.
\* pushToken is the loop body for the token r just read.
RECURSIVE tokenizeFrom(_, _, _), pushToken(_, _, _)
tokenizeFrom(input, pos, acc) == pushToken(input, acc, getNextToken(input, pos))

pushToken(input, acc, r) ==
    IF r.error
    THEN [ok |-> FALSE, position |-> r.token.position, tokens |-> acc]
    ELSE IF r.token.type = "EOF"
    THEN [ok |-> TRUE, position |-> r.token.position, tokens |-> Append(acc, r.token)]
    ELSE tokenizeFrom(input, r.next, Append(acc, r.token))

\* tokenize(input): new FormulaLexer(input) trims the input first.
tokenize(input) == tokenizeFrom(Trim(input), 0, << >>)

\* ------------------------------------------------------------------------
\* formulaAST.js
\* ------------------------------------------------------------------------

\* createAtom / new AtomNode(name)
createAtom(name) == [type |-> "atom", name |-> name]

\* new UnaryNode(operator, operand)
UnaryNode(operator, operand) ==
    [type |-> "unary", operator |-> operator, operand |-> operand]

\* new BinaryNode(operator, left, right)
BinaryNode(operator, left, right) ==
    [type |-> "binary", operator |-> operator, left |-> left, right |-> right]

negate(ast) == UnaryNode("not", ast)
createConjunction(left, right) == BinaryNode("and", left, right)
createDisjunction(left, right) == BinaryNode("or", left, right)
createImplication(left, right) == BinaryNode("implies", left, right)
createEquivalence(left, right) == BinaryNode("iff", left, right)

\* BinaryNode.toString: opSymbols
opSymbols(operator) ==
    CASE operator = "and"     -> U2227
      [] operator = "or"      -> U2228
      [] operator = "implies" -> U2192
      [] operator = "iff"     -> U2194

\* A rendering that leaves out the parentheses of BinaryNode.toString.
RECURSIVE astToStringFlat(_)
astToStringFlat(ast) ==
    CASE ast.type = "atom"   -> ast.name
      [] ast.type = "unary"  -> <<"~">> \o astToStringFlat(ast.operand)
      [] ast.type = "binary" ->
            astToStringFlat(ast.left) \o <<" ", opSymbols(ast.operator), " ">>
                                      \o astToStringFlat(ast.right)

\* AtomNode.toString / UnaryNode.toString / BinaryNode.toString
RECURSIVE astToString(_)
astToString(ast) ==
    CASE ast.type = "atom"   -> ast.name
      [] ast.type = "unary"  -> <<"~">> \o astToString(ast.operand)
      [] ast.type = "binary" ->
            <<"(">> \o astToString(ast.left) \o <<" ", opSymbols(ast.operator), " ">>
                    \o astToString(ast.right) \o <<")">>

\* getAtoms: the atom names of the AST, in first-occurrence order, no repeats.
RECURSIVE collectAtoms(_, _)
collectAtoms(node, atoms) ==
    CASE node.type = "atom" ->
            IF \E i \in 1..Len(atoms) : atoms[i] = node.name
            THEN atoms ELSE Append(atoms, node.name)
      [] node.type = "unary"  -> collectAtoms(node.operand, atoms)
      [] node.type = "binary" -> collectAtoms(node.right, collectAtoms(node.left, atoms))

getAtoms(ast) == collectAtoms(ast, << >>)

\* astEquals
RECURSIVE astEquals(_, _)
astEquals(ast1, ast2) ==
    IF ast1.type # ast2.type THEN FALSE
    ELSE CASE ast1.type = "atom"   -> ast1.name = ast2.name
           [] ast1.type = "unary"  ->
                 ast1.operator = ast2.operator /\ astEquals(ast1.operand, ast2.operand)
           [] ast1.type = "binary" ->
                 /\ ast1.operator = ast2.operator
                 /\ astEquals(ast1.left, ast2.left)
                 /\ astEquals(ast1.right, ast2.right)

\* A normalization that collapses double negations at the root only.
RECURSIVE normalizeASTAtRoot(_)
normalizeASTAtRoot(ast) ==
    IF ast.type = "unary" /\ ast.operator = "not" /\ ast.operand.type = "unary"
                          /\ ast.operand.operator = "not"
    THEN normalizeASTAtRoot(ast.operand.operand)
    ELSE ast

\* normalizeAST
RECURSIVE normalizeAST(_)
normalizeAST(ast) ==
    CASE ast.type = "atom" -> ast
      [] ast.type = "unary" ->
            IF ast.operator = "not" /\ ast.operand.type = "unary"
                                    /\ ast.operand.operator = "not"
            THEN normalizeAST(ast.operand.operand)
            ELSE UnaryNode(ast.operator, normalizeAST(ast.operand))
      [] ast.type = "binary" ->
            BinaryNode(ast.operator, normalizeAST(ast.left), normalizeAST(ast.right))

isImplication(ast) == ast.type = "binary" /\ ast.operator = "implies"
isNegation(ast) == ast.type = "unary" /\ ast.operator = "not"
isAtom(ast) == ast.type = "atom"

\* ------------------------------------------------------------------------
\* formulaParser.js
\* ------------------------------------------------------------------------

\* FormulaParser.match on the current token (tokens[pos], pos 0-based).
matchType(tokens, pos, tokenType) == tokens[pos + 1].type = tokenType
matchOp(tokens, pos, value) ==
    tokens[pos + 1].type = "OPERATOR" /\ tokens[pos + 1].value = value

\* A ParseError raised at the current token:
\* position = this.currentToken?.position || this.position
ParseErrorAt(tokens, pos) ==
    [ ok |-> FALSE,
      position |-> IF tokens[pos + 1].position # 0 THEN tokens[pos + 1].position ELSE pos ]

ParseOk(ast, pos) == [ok |-> TRUE, ast |-> ast, pos |-> pos]

\* The node built by a binary rule once its right operand is parsed; an
\* error in the right operand propagates.
BinaryResult(operator, left, right) ==
    IF right.ok
    THEN ParseOk(CASE operator = "iff" -> createEquivalence(left.ast, right.ast)
                   [] operator = "implies" -> createImplication(left.ast, right.ast)
                   [] operator = "or" -> createDisjunction(left.ast, right.ast)
                   [] operator = "and" -> createConjunction(left.ast, right.ast),
                 right.pos)
    ELSE right

\* The node built by parseNegation once its operand is parsed.
NegationResult(operand) ==
    IF operand.ok THEN ParseOk(negate(operand.ast), operand.pos) ELSE operand

\* parsePrimary after the parenthesised formula: expect(RPAREN).
expectRParen(tokens, expr) ==
    IF expr.ok
    THEN IF matchType(tokens, expr.pos, "RPAREN")
         THEN ParseOk(expr.ast, expr.pos + 1)
         ELSE ParseErrorAt(tokens, expr.pos)
    ELSE expr

RECURSIVE parseEquivalence(_, _), parseEquivalenceLoop(_, _),
          parseImplication(_, _), parseImplicationRest(_, _),
          parseDisjunction(_, _), parseDisjunctionLoop(_, _),
          parseConjunction(_, _), parseConjunctionLoop(_, _),
          parseNegation(_, _), parsePrimary(_, _)

\* FormulaParser.parseEquivalence: implication ( iff implication )*
parseEquivalence(tokens, pos) ==
    parseEquivalenceLoop(tokens, parseImplication(tokens, pos))

\* The while loop of parseEquivalence; left is the result parsed so far.
parseEquivalenceLoop(tokens, left) ==
    IF left.ok
    THEN IF matchOp(tokens, left.pos, "iff")
         THEN parseEquivalenceLoop(tokens,
                  BinaryResult("iff", left, parseImplication(tokens, left.pos + 1)))
         ELSE left
    ELSE left

\* FormulaParser.parseImplication: disjunction ( implies implication )?
parseImplication(tokens, pos) ==
    parseImplicationRest(tokens, parseDisjunction(tokens, pos))

\* An implication loop that associates to the left.
RECURSIVE parseImplicationLeft(_, _)
parseImplicationLeft(tokens, left) ==
    IF left.ok
    THEN IF matchOp(tokens, left.pos, "implies")
         THEN parseImplicationLeft(tokens,
                  BinaryResult("implies", left, parseDisjunction(tokens, left.pos + 1)))
         ELSE left
    ELSE left

\* The if of parseImplication: right-associative recursion.
parseImplicationRest(tokens, left) ==
    IF left.ok
    THEN IF matchOp(tokens, left.pos, "implies")
         THEN BinaryResult("implies", left, parseImplication(tokens, left.pos + 1))
         ELSE left
    ELSE left

\* FormulaParser.parseDisjunction: conjunction ( or conjunction )*
parseDisjunction(tokens, pos) ==
    parseDisjunctionLoop(tokens, parseConjunction(tokens, pos))

parseDisjunctionLoop(tokens, left) ==
    IF left.ok
    THEN IF matchOp(tokens, left.pos, "or")
         THEN parseDisjunctionLoop(tokens,
                  BinaryResult("or", left, parseConjunction(tokens, left.pos + 1)))
         ELSE left
    ELSE left

\* FormulaParser.parseConjunction: negation ( and negation )*
parseConjunction(tokens, pos) ==
    parseConjunctionLoop(tokens, parseNegation(tokens, pos))

parseConjunctionLoop(tokens, left) ==
    IF left.ok
    THEN IF matchOp(tokens, left.pos, "and")
         THEN parseConjunctionLoop(tokens,
                  BinaryResult("and", left, parseNegation(tokens, left.pos + 1)))
         ELSE left
    ELSE left

\* FormulaParser.parseNegation: not* primary
parseNegation(tokens, pos) ==
    IF matchOp(tokens, pos, "not")
    THEN NegationResult(parseNegation(tokens, pos + 1))
    ELSE parsePrimary(tokens, pos)

\* FormulaParser.parsePrimary: identifier | '(' formula ')'
parsePrimary(tokens, pos) ==
    IF matchType(tokens, pos, "LPAREN")
    THEN expectRParen(tokens, parseEquivalence(tokens, pos + 1))
    ELSE IF matchType(tokens, pos, "IDENTIFIER")
    THEN ParseOk(createAtom(tokens[pos + 1].value), pos + 1)
    ELSE ParseErrorAt(tokens, pos)

\* A parse that does not look at what follows the formula.
expectNothing(tokens, r) ==
    IF r.ok THEN [ok |-> TRUE, ast |-> r.ast] ELSE r

\* FormulaParser.parse after parseEquivalence returned r: the whole token
\* list must be consumed.
expectEOF(tokens, r) ==
    IF r.ok
    THEN IF tokens[r.pos + 1].type # "EOF"
         THEN [ok |-> FALSE, position |-> tokens[r.pos + 1].position]
         ELSE [ok |-> TRUE, ast |-> r.ast]
    ELSE r

\* FormulaParser.parse
parse(tokens) == expectEOF(tokens, parseEquivalence(tokens, 0))

\* new FormulaParser(tokens).parse() for the lexer's result t; a lexer error
\* carries the position of the offending character.
parseTokens(t) ==
    IF t.ok THEN parse(t.tokens) ELSE [ok |-> FALSE, position |-> t.position]

\* parseFormulaFromString: tokenize, then parse.
parseFormulaFromString(input) == parseTokens(tokenize(input))

\* ------------------------------------------------------------------------
\* gentzen.js: parseFormula, and formulaUtils.js
\* ------------------------------------------------------------------------

\* normalizeAST applied to a successful parse r; an error is passed on.
normalizeParsed(r) ==
    IF r.ok THEN [ok |-> TRUE, ast |-> normalizeAST(r.ast)] ELSE r

\* parseFormula(formulaStr): the normalized AST, or the error thrown.
parseFormula(formulaStr) == normalizeParsed(parseFormulaFromString(formulaStr))

\* Whether parseFormula(formulaStr) returns (does not throw).
Parseable(formulaStr) == parseFormula(formulaStr).ok

\* normalizeFormula(formula) = parseFormula(formula).toString(), for a
\* parseable formula.
normalizeFormula(formula) == astToString(parseFormula(formula).ast)

\* A canonical form that leaves the formula as written.
canonicalDoubleNegKeep(formula) == formula

\* canonicalDoubleNeg: strip every leading "~~".
RECURSIVE canonicalDoubleNeg(_)
canonicalDoubleNeg(formula) ==
    IF StartsWith(formula, <<"~","~">>)
    THEN canonicalDoubleNeg(Slice(formula, 2))
    ELSE formula

\* ------------------------------------------------------------------------
\* String order and join (Array.prototype.sort, Array.prototype.join)
\* ------------------------------------------------------------------------

\* The printable ASCII characters in code order, from the space (32) on
\* (the double quote, the backslash and the backtick written after their code points).
AsciiTable ==
    << " ","!","u0022","#","$","%","&","'","(",")","*","+",",","-",".","/",
       "0","1","2","3","4","5","6","7","8","9",":",";","<","=",">","?",
       "@","A","B","C","D","E","F","G","H","I","J","K","L","M","N","O",
       "P","Q","R","S","T","U","V","W","X","Y","Z","[","u005C","]","^","_",
       "u0060","a","b","c","d","e","f","g","h","i","j","k","l","m","n","o",
       "p","q","r","s","t","u","v","w","x","y","z","{","|","}","~" >>

\* The UTF-16 code unit of a character, which the default sort compares.
CharCode ==
    [ c \in {AsciiTable[i] : i \in 1..Len(AsciiTable)} \cup {"\t", U2192, U2194, U2227, U2228} |->
        CASE c = "\t"  -> 9
          [] c = U2192 -> 8594
          [] c = U2194 -> 8596
          [] c = U2227 -> 8743
          [] c = U2228 -> 8744
          [] OTHER     -> 31 + (CHOOSE i \in 1..Len(AsciiTable) : AsciiTable[i] = c) ]

\* a < b in the order of the default sort (code units, then length).
RECURSIVE StringLess(_, _)
StringLess(a, b) ==
    IF Len(b) = 0 THEN FALSE
    ELSE IF Len(a) = 0 THEN TRUE
    ELSE IF a[1] = b[1] THEN StringLess(Tail(a), Tail(b))
    ELSE CharCode[a[1]] < CharCode[b[1]]

\* [...set].sort(): the strings of the set in ascending order.
\* The strings of the set in the order of their ranks 0, 1, ...
SortByRank(set, rank) ==
    [i \in 1..Cardinality(set) |-> CHOOSE x \in set : rank[x] = i - 1]

\* The rank of a string is the number of strings of the set below it.
SortStrings(set) ==
    SortByRank(set, [x \in set |-> Cardinality({y \in set : StringLess(y, x)})])

\* list.join(sep)
RECURSIVE Join(_, _)
Join(list, sep) ==
    IF Len(list) = 0 THEN << >>
    ELSE IF Len(list) = 1 THEN list[1]
    ELSE Join(SubSeq(list, 1, Len(list) \div 2), sep) \o sep
         \o Join(SubSeq(list, (Len(list) \div 2) + 1, Len(list)), sep)

\* ------------------------------------------------------------------------
\* gentzen.js: the derivation state
\* ------------------------------------------------------------------------

MAX_ITERATIONS == 1000
MAX_QUEUE_SIZE == 1000
MAX_STEPS == 100

\* new GentzenSystem()
NewSystem ==
    [facts |-> {}, steps |-> << >>, missingFacts |-> {}, skippedSteps |-> << >>]

\* A step object.
Step(origin, ruleType, from, formulas) ==
    [origin |-> origin, ruleType |-> ruleType, from |-> from, formulas |-> formulas]

\* cloneSystem: fresh system, facts copied, each step copied with its own
\* formula set; `from` still refers to the antecedents of the original.
cloneSystem(system) ==
    [ NewSystem EXCEPT
        !.facts = system.facts,
        !.steps = [ n \in 1..Len(system.steps) |->
                      Step(system.steps[n].origin, system.steps[n].ruleType,
                           system.steps[n].from, system.steps[n].formulas) ] ]

\* Every formula held by a step of the system.
StepFormulas(system) ==
    UNION { system.steps[n].formulas : n \in 1..Len(system.steps) }

\* getSystemSignature
getSystemSignature(system) ==
    LET formulas == { canonicalDoubleNeg(f) : f \in StepFormulas(system) \cup system.facts }
    IN  Join(SortStrings(formulas), <<" ", "|", " ">>)

\* A test of novelty on the formulas as written.
didWeDeriveNewFormulaRaw(originalSystem, newSystem, newStep) ==
    \E f \in newStep.formulas :
        f \notin StepFormulas(originalSystem) \cup originalSystem.facts

\* didWeDeriveNewFormula(originalSystem, newSystem, newStep)
didWeDeriveNewFormula(originalSystem, newSystem, newStep) ==
    LET known == { canonicalDoubleNeg(f) :
                     f \in StepFormulas(originalSystem) \cup originalSystem.facts }
    IN  \E f \in newStep.formulas : canonicalDoubleNeg(f) \notin known

\* getUniqueFormula: throws unless the step holds exactly one formula.
HasUniqueFormula(step) == Cardinality(step.formulas) = 1
getUniqueFormula(step) == CHOOSE f \in step.formulas : TRUE

\* GentzenSystem.addFact
addFact(system, formulaStr) ==
    [system EXCEPT !.facts = @ \cup {formulaStr}]

\* An availability test that looks at the facts only.
isFactAvailableInFacts(system, factName) == factName \in system.facts

\* GentzenSystem.isFactAvailable
isFactAvailable(system, factName) ==
    \/ factName \in system.facts
    \/ \E n \in 1..Len(system.steps) : factName \in system.steps[n].formulas

\* A resolvability test without the auto-negation branches.
isAtomResolvableExact(system, atom) == isFactAvailable(system, atom)

\* GentzenSystem.isAtomResolvable
isAtomResolvable(system, atom) ==
    IF isFactAvailable(system, atom) THEN TRUE
    ELSE IF StartsWith(atom, <<"~">>)
    THEN ~isFactAvailable(system, Slice(atom, 1))
    ELSE isFactAvailable(system, <<"~">> \o atom)

\* GentzenSystem.trackMissingFact
trackMissingFact(system, factName) ==
    [system EXCEPT !.missingFacts = @ \cup {factName}]

\* A proposition recorded as a fact, not as a step.
addPropositionAsFact(system, formulaStr) ==
    [sys |-> [system EXCEPT !.facts = @ \cup {formulaStr}],
     step |-> Step("Proposition", "fact", << >>, {formulaStr})]

\* GentzenSystem.addProposition
addProposition(system, formulaStr) ==
    LET step == Step("Proposition", "fact", << >>, {formulaStr})
    IN  [sys |-> [system EXCEPT !.steps = Append(@, step)], step |-> step]

\* GentzenSystem.findStepsContaining (every formula involved parses)
findStepsContaining(system, formula) ==
    SelectSeq(system.steps,
              LAMBDA step : \E f \in step.formulas :
                              normalizeFormula(f) = normalizeFormula(formula))

\* A proved test that compares the atoms of the formulas only.
isProvedByAtoms(system, targetFormula) ==
    LET atomsOf(f) == getAtoms(parseFormula(f).ast)
    IN  \E f \in system.facts \cup StepFormulas(system) : atomsOf(f) = atomsOf(targetFormula)

\* A proved test that compares the strings as written.
isProvedTextual(system, targetFormula) ==
    targetFormula \in system.facts \cup StepFormulas(system)

\* GentzenSystem.isProved (every formula involved parses)
isProved(system, targetFormula) ==
    LET normalizedTarget == normalizeFormula(targetFormula)
    IN  \/ \E f \in system.facts : normalizeFormula(f) = normalizedTarget
        \/ \E n \in 1..Len(system.steps) : \E f \in system.steps[n].formulas :
              normalizeFormula(f) = normalizedTarget

\* A resolvability report that stops at the first unresolved atom.
canResolveFormulaFirstOnly(system, formula) ==
    LET atoms == getAtoms(parseFormula(formula).ast)
        unresolved == SelectSeq(atoms, LAMBDA a : ~isAtomResolvable(system, a))
    IN  [canResolve |-> Len(unresolved) = 0,
         missing |-> IF Len(unresolved) = 0 THEN << >> ELSE << unresolved[1] >>]

\* atom.replace(/^~+/, '')
RECURSIVE StripTildes(_)
StripTildes(atom) ==
    IF StartsWith(atom, <<"~">>) THEN StripTildes(Slice(atom, 1)) ELSE atom

\* extractMissingFactsFromFormula / GentzenSystem.canResolveFormula, for a
\* parseable formula: the base names of the atoms that do not resolve.
canResolveFormula(system, formula) ==
    LET atoms   == getAtoms(parseFormula(formula).ast)
        missing == [ k \in 1..Len(SelectSeq(atoms, LAMBDA a : ~isAtomResolvable(system, a))) |->
                       StripTildes(SelectSeq(atoms, LAMBDA a : ~isAtomResolvable(system, a))[k]) ]
    IN  [canResolve |-> Len(missing) = 0, missing |-> missing]

\* ------------------------------------------------------------------------
\* gentzen.js: the rules.  Each returns the system with the new step pushed
\* and the new step, or ok = FALSE when it throws (the system is untouched).
\* ------------------------------------------------------------------------

RuleThrows(system) == [ok |-> FALSE, sys |-> system, step |-> Step("", "", << >>, {})]

\* A push that puts the new step in front of the others.
RulePrepends(system, step) ==
    [ok |-> TRUE, sys |-> [system EXCEPT !.steps = <<step>> \o @], step |-> step]

RuleAppends(system, step) ==
    [ok |-> TRUE, sys |-> [system EXCEPT !.steps = Append(@, step)], step |-> step]

\* `(${A} op ${B})`
Compose(A, symbol, B) == <<"(">> \o A \o <<" ", symbol, " ">> \o B \o <<")">>

\* GentzenSystem.alphaRule
alphaRule(system, step1, step2, ruleType) ==
    IF ~HasUniqueFormula(step1) \/ ~HasUniqueFormula(step2) THEN RuleThrows(system)
    ELSE IF ruleType = "and"
    THEN RuleAppends(system, Step("AlphaRule", ruleType, <<step1, step2>>,
             {Compose(getUniqueFormula(step1), U2227, getUniqueFormula(step2))}))
    ELSE IF ruleType = "implies"
    THEN RuleAppends(system, Step("AlphaRule", ruleType, <<step1, step2>>,
             {Compose(getUniqueFormula(step1), U2192, getUniqueFormula(step2))}))
    ELSE RuleThrows(system)

\* A beta rule that forms the conjunction.
betaRuleAsAlpha(system, step1, step2) == alphaRule(system, step1, step2, "and")

\* GentzenSystem.betaRule
betaRule(system, step1, step2) ==
    IF ~HasUniqueFormula(step1) \/ ~HasUniqueFormula(step2) THEN RuleThrows(system)
    ELSE RuleAppends(system, Step("BetaRule", "or", <<step1, step2>>,
             {Compose(getUniqueFormula(step1), U2228, getUniqueFormula(step2))}))

\* A contraposition that swaps the sides without negating them.
contrapositionRuleConverse(system, step) ==
    IF ~HasUniqueFormula(step) THEN RuleThrows(system)
    ELSE IF ~Parseable(getUniqueFormula(step)) THEN RuleThrows(system)
    ELSE IF ~isImplication(parseFormula(getUniqueFormula(step)).ast) THEN RuleThrows(system)
    ELSE RuleAppends(system, Step("ContrapositionRule", "contraposition", <<step>>,
             {astToString(createImplication(parseFormula(getUniqueFormula(step)).ast.right,
                                            parseFormula(getUniqueFormula(step)).ast.left))}))

\* GentzenSystem.contrapositionRule: parseFormula may throw, and the parsed
\* formula must be an implication.
contrapositionRule(system, step) ==
    IF ~HasUniqueFormula(step) THEN RuleThrows(system)
    ELSE LET parsed == parseFormula(getUniqueFormula(step))
         IN  IF ~parsed.ok THEN RuleThrows(system)
             ELSE IF ~isImplication(parsed.ast) THEN RuleThrows(system)
             ELSE RuleAppends(system, Step("ContrapositionRule", "contraposition", <<step>>,
                      {astToString(createImplication(negate(parsed.ast.right),
                                                     negate(parsed.ast.left)))}))

\* A double negation rule whose elimination strips every leading "~~".
doubleNegationRuleStripAll(system, step, mode) ==
    IF ~HasUniqueFormula(step) THEN RuleThrows(system)
    ELSE RuleAppends(system,
             Step("DoubleNegationRule",
                  IF mode = "introduction" THEN "doubleNegIntro" ELSE "doubleNegElim",
                  <<step>>,
                  { IF mode = "introduction"
                    THEN <<"~","~">> \o canonicalDoubleNeg(getUniqueFormula(step))
                    ELSE canonicalDoubleNeg(getUniqueFormula(step)) }))

\* GentzenSystem.doubleNegationRule
doubleNegationRule(system, step, mode) ==
    IF ~HasUniqueFormula(step) THEN RuleThrows(system)
    ELSE LET f == getUniqueFormula(step)
             newFormula ==
                 IF mode = "introduction"
                 THEN IF StartsWith(f, <<"~","~">>) THEN f ELSE <<"~","~">> \o f
                 ELSE IF StartsWith(f, <<"~","~">>) THEN Slice(f, 2) ELSE f
         IN  RuleAppends(system,
                 Step("DoubleNegationRule",
                      IF mode = "introduction" THEN "doubleNegIntro" ELSE "doubleNegElim",
                      <<step>>, {newFormula}))

\* GentzenSystem.equivalenceRule
equivalenceRule(system, step1, step2) ==
    IF ~HasUniqueFormula(step1) \/ ~HasUniqueFormula(step2) THEN RuleThrows(system)
    ELSE RuleAppends(system, Step("EquivalenceRule", "equiv", <<step1, step2>>,
             {Compose(getUniqueFormula(step1), U2194, getUniqueFormula(step2))}))

\* ------------------------------------------------------------------------
\* gentzen.js: expandOneLevel
\* ------------------------------------------------------------------------

\* The four combos tried on every ordered pair of steps, in order.
BinaryCombos ==
    << [rule |-> "alpha", subtype |-> "and"],
       [rule |-> "alpha", subtype |-> "implies"],
       [rule |-> "beta", subtype |-> "undefined"],
       [rule |-> "equivalence", subtype |-> "undefined"] >>

\* The three combos tried on every single step, in order.
UnaryCombos ==
    << [rule |-> "contraposition", mode |-> "undefined"],
       [rule |-> "doubleNegation", mode |-> "introduction"],
       [rule |-> "doubleNegation", mode |-> "elimination"] >>

\* One pass of the inner loop body for steps i, j (1-based) and combo c:
\* clone, apply the rule to the clone's own steps, keep the clone when the
\* rule did not throw and derived a new formula.
TryBinary(this, i, j, c) ==
    LET sysClone == cloneSystem(this)
        combo    == BinaryCombos[c]
        r == IF combo.rule = "alpha"
             THEN alphaRule(sysClone, sysClone.steps[i], sysClone.steps[j], combo.subtype)
             ELSE IF combo.rule = "beta"
             THEN betaRule(sysClone, sysClone.steps[i], sysClone.steps[j])
             ELSE equivalenceRule(sysClone, sysClone.steps[i], sysClone.steps[j])
    IN  IF r.ok /\ didWeDeriveNewFormula(this, r.sys, r.step) THEN <<r.sys>> ELSE << >>

TryUnary(this, i, c) ==
    LET sysClone == cloneSystem(this)
        combo    == UnaryCombos[c]
        r == IF combo.rule = "contraposition"
             THEN contrapositionRule(sysClone, sysClone.steps[i])
             ELSE doubleNegationRule(sysClone, sysClone.steps[i], combo.mode)
    IN  IF r.ok /\ didWeDeriveNewFormula(this, r.sys, r.step) THEN <<r.sys>> ELSE << >>

\* The first loop nest, flattened: pass n (0-based) is steps
\* (n \div (4 * stepCount), (n \div 4) % stepCount) with combo n % 4.  The
\* systems pushed by the passes lo .. hi - 1, in order.
RECURSIVE ExpandBinary(_, _, _)
ExpandBinary(this, lo, hi) ==
    LET stepCount == Len(this.steps)
        combos    == Len(BinaryCombos)
        mid       == (lo + hi) \div 2
    IN  IF hi <= lo THEN << >>
        ELSE IF hi = lo + 1
        THEN TryBinary(this, (lo \div (combos * stepCount)) + 1,
                             ((lo \div combos) % stepCount) + 1, (lo % combos) + 1)
        ELSE ExpandBinary(this, lo, mid) \o ExpandBinary(this, mid, hi)

\* The second loop nest, flattened likewise.
RECURSIVE ExpandUnary(_, _, _)
ExpandUnary(this, lo, hi) ==
    LET combos == Len(UnaryCombos)
        mid    == (lo + hi) \div 2
    IN  IF hi <= lo THEN << >>
        ELSE IF hi = lo + 1
        THEN TryUnary(this, (lo \div combos) + 1, (lo % combos) + 1)
        ELSE ExpandUnary(this, lo, mid) \o ExpandUnary(this, mid, hi)

\* An expansion that takes the facts for steps as well.
expandOneLevelOverFacts(this) ==
    LET thisWithFacts ==
            [this EXCEPT !.steps = @ \o [k \in 1..Cardinality(this.facts) |->
                            Step("FactRef", "factRef", << >>,
                                 {SortStrings(this.facts)[k]})]]
        stepCount == Len(thisWithFacts.steps)
    IN  IF stepCount >= MAX_STEPS THEN << >>
        ELSE ExpandBinary(thisWithFacts, 0, stepCount * stepCount * Len(BinaryCombos))
             \o ExpandUnary(thisWithFacts, 0, stepCount * Len(UnaryCombos))

\* GentzenSystem.expandOneLevel
expandOneLevel(this) ==
    LET stepCount == Len(this.steps)
    IN  IF stepCount >= MAX_STEPS THEN << >>
        ELSE ExpandBinary(this, 0, stepCount * stepCount * Len(BinaryCombos))
             \o ExpandUnary(this, 0, stepCount * Len(UnaryCombos))

\* ------------------------------------------------------------------------
\* gentzen.js: searchForProof
\* ------------------------------------------------------------------------

\* The result object searchForProof starts from.
InitialResult ==
    [proven |-> FALSE, path |-> << >>, missingFacts |-> << >>,
     skippedSteps |-> << >>, depth |-> 0]

\* `step_${n}`
StepLabel(n) == "step_" \o ToString(n)

\* A loop body that enqueues the child without looking for the target in it.
ProcessChildUntested(children, k, targetFormula, depth, path, acc) ==
    IF getSystemSignature(children[k]) \notin acc.visited
    THEN [acc EXCEPT !.visited = @ \cup {getSystemSignature(children[k])},
                     !.queue = Append(@, [system |-> children[k],
                                          depth |-> depth + 1,
                                          path |-> Append(path, StepLabel(depth + 1))])]
    ELSE acc

\* The body of the for loop over the children of one expanded state, for
\* child k: return when it holds the target, enqueue it when its signature
\* is new.  `found` is 0 or the index of the child that proved the target.
ProcessChild(children, k, targetFormula, depth, path, acc) ==
    IF isProved(children[k], targetFormula) THEN [acc EXCEPT !.found = k]
    ELSE LET sig == getSystemSignature(children[k])
         IN  IF sig \notin acc.visited
             THEN [acc EXCEPT !.visited = @ \cup {sig},
                              !.queue = Append(@, [system |-> children[k],
                                                   depth |-> depth + 1,
                                                   path |-> Append(path, StepLabel(depth + 1))])]
             ELSE acc

\* The for loop over the children lo .. hi, in order, up to the return.
RECURSIVE ProcessChildren(_, _, _, _, _, _, _)
ProcessChildren(children, lo, hi, targetFormula, depth, path, acc) ==
    IF acc.found > 0 \/ hi < lo THEN acc
    ELSE IF hi = lo THEN ProcessChild(children, lo, targetFormula, depth, path, acc)
    ELSE ProcessChildren(children, ((lo + hi) \div 2) + 1, hi, targetFormula, depth, path,
             ProcessChildren(children, lo, (lo + hi) \div 2, targetFormula, depth, path, acc))

\* The while loop is run by SearchStep, one evaluation of the loop
\* condition and body at a time, on the record of the locals: queue,
\* visited, iterations, result, and
\*   ret        the return statement taken ("none": still in the loop),
\*   dequeues   the number of queue.shift() executed,
\*   expansions the number of expandOneLevel calls made,
\*   proof      the state isProved(targetFormula) held in, when proven.

\* missing.forEach(fact => this.trackMissingFact(fact))
RECURSIVE TrackAll(_, _, _)
TrackAll(sys, missing, k) ==
    IF k > Len(missing) THEN sys
    ELSE TrackAll(trackMissingFact(sys, missing[k]), missing, k + 1)

\* Line 416, with the incremented counter: the loop gives up.
BoundExceededQueueOnly(n, queueLength) == queueLength > MAX_QUEUE_SIZE
BoundExceeded(n, queueLength) == n > MAX_ITERATIONS \/ queueLength > MAX_QUEUE_SIZE

\* A loop that starts with the initial state at depth 1.
LoopStartAtOne(this) ==
    [ret |-> "none", result |-> InitialResult,
     queue |-> << [system |-> this, depth |-> 1, path |-> << >>] >>,
     visited |-> {getSystemSignature(this)},
     iterations |-> 0, dequeues |-> 0, expansions |-> 0, proof |-> NewSystem]

\* Lines 410-412: the locals when the loop is entered.
LoopStart(this) ==
    [ret |-> "none", result |-> InitialResult,
     queue |-> << [system |-> this, depth |-> 0, path |-> << >>] >>,
     visited |-> {getSystemSignature(this)},
     iterations |-> 0, dequeues |-> 0, expansions |-> 0, proof |-> NewSystem]

\* A loop that tests no bound.
SearchStepUnbounded(ls, targetFormula, maxDepth) ==
    IF Len(ls.queue) = 0 THEN [ls EXCEPT !.ret = "exhausted"]
    ELSE LET head == Head(ls.queue)
             rest == Tail(ls.queue)
             shifted == [ls EXCEPT !.iterations = @ + 1, !.dequeues = @ + 1,
                                   !.queue = rest]
         IN  IF isProved(head.system, targetFormula)
             THEN [shifted EXCEPT !.ret = "dequeued",
                                  !.result = [@ EXCEPT !.proven = TRUE,
                                                       !.path = head.path,
                                                       !.depth = head.depth],
                                  !.proof = head.system]
             ELSE IF head.depth >= maxDepth THEN shifted
             ELSE LET children == expandOneLevel(head.system)
                      r == ProcessChildren(children, 1, Len(children), targetFormula,
                                           head.depth, head.path,
                                           [found |-> 0, queue |-> rest,
                                            visited |-> ls.visited])
                  IN  IF r.found > 0
                      THEN [shifted EXCEPT
                               !.ret = "child",
                               !.result = [@ EXCEPT !.proven = TRUE,
                                                    !.path = Append(head.path, "final_step"),
                                                    !.depth = head.depth + 1],
                               !.queue = r.queue, !.visited = r.visited,
                               !.expansions = @ + 1,
                               !.proof = children[r.found]]
                      ELSE [shifted EXCEPT !.queue = r.queue, !.visited = r.visited,
                                           !.expansions = @ + 1]

\* Lines 414-443: the loop condition and one run of the loop body.
SearchStep(ls, targetFormula, maxDepth) ==
    IF Len(ls.queue) = 0 THEN [ls EXCEPT !.ret = "exhausted"]
    ELSE IF BoundExceeded(ls.iterations + 1, Len(ls.queue))
    THEN [ls EXCEPT !.ret = "bound", !.iterations = @ + 1]
    ELSE LET head == Head(ls.queue)
             rest == Tail(ls.queue)
             shifted == [ls EXCEPT !.iterations = @ + 1, !.dequeues = @ + 1,
                                   !.queue = rest]
         IN  IF isProved(head.system, targetFormula)
             THEN [shifted EXCEPT !.ret = "dequeued",
                                  !.result = [@ EXCEPT !.proven = TRUE,
                                                       !.path = head.path,
                                                       !.depth = head.depth],
                                  !.proof = head.system]
             ELSE IF head.depth >= maxDepth THEN shifted
             ELSE LET children == expandOneLevel(head.system)
                      r == ProcessChildren(children, 1, Len(children), targetFormula,
                                           head.depth, head.path,
                                           [found |-> 0, queue |-> rest,
                                            visited |-> ls.visited])
                  IN  IF r.found > 0
                      THEN [shifted EXCEPT
                               !.ret = "child",
                               !.result = [@ EXCEPT !.proven = TRUE,
                                                    !.path = Append(head.path, "final_step"),
                                                    !.depth = head.depth + 1],
                               !.queue = r.queue, !.visited = r.visited,
                               !.expansions = @ + 1,
                               !.proof = children[r.found]]
                      ELSE [shifted EXCEPT !.queue = r.queue, !.visited = r.visited,
                                           !.expansions = @ + 1]

\* Up to n runs of SearchStep, stopping at the return.
RECURSIVE RunLoop(_, _, _, _)
RunLoop(ls, targetFormula, maxDepth, n) ==
    IF ls.ret # "none" THEN ls
    ELSE IF n = 1 THEN SearchStep(ls, targetFormula, maxDepth)
    ELSE RunLoop(RunLoop(ls, targetFormula, maxDepth, n \div 2),
                 targetFormula, maxDepth, n - (n \div 2))

\* More loop steps than the loop can take before line 416 returns.
LoopFuel == 2 * MAX_ITERATIONS

\* searchForProof(targetFormula, maxDepth) on `this`: the receiver after the
\* call and the locals at the return.
searchForProof(this, targetFormula, maxDepth) ==
    IF ~Parseable(targetFormula)
    THEN \* isProved: normalizeFormula(targetFormula) throws
         [system |-> this, ls |-> [LoopStart(this) EXCEPT !.ret = "threw", !.queue = << >>,
                                                          !.visited = {}]]
    ELSE IF isProved(this, targetFormula)
    THEN [system |-> this,
          ls |-> [LoopStart(this) EXCEPT !.ret = "proved0", !.queue = << >>, !.visited = {},
                                         !.result = [@ EXCEPT !.proven = TRUE],
                                         !.proof = this]]
    ELSE LET r == canResolveFormula(this, targetFormula)
         IN  IF ~r.canResolve
             THEN [system |-> TrackAll(this, r.missing, 1),
                   ls |-> [LoopStart(this) EXCEPT !.ret = "missing", !.queue = << >>,
                                                  !.visited = {},
                                                  !.result = [@ EXCEPT !.missingFacts = r.missing]]]
             ELSE [system |-> this,
                   ls |-> RunLoop(LoopStart(this), targetFormula, maxDepth, LoopFuel)]

\* Lines 388-412: searchForProof(targetFormula, maxDepth) on `this` up to
\* the loop: ret is "none" when the loop is entered.
searchForProofEntry(this, targetFormula) ==
    IF ~Parseable(targetFormula)
    THEN [system |-> this, ls |-> [LoopStart(this) EXCEPT !.ret = "threw", !.queue = << >>,
                                                          !.visited = {}]]
    ELSE IF isProved(this, targetFormula)
    THEN [system |-> this,
          ls |-> [LoopStart(this) EXCEPT !.ret = "proved0", !.queue = << >>, !.visited = {},
                                         !.result = [@ EXCEPT !.proven = TRUE],
                                         !.proof = this]]
    ELSE IF ~canResolveFormula(this, targetFormula).canResolve
    THEN [system |-> TrackAll(this, canResolveFormula(this, targetFormula).missing, 1),
          ls |-> [LoopStart(this) EXCEPT !.ret = "missing", !.queue = << >>,
                     !.visited = {},
                     !.result = [@ EXCEPT !.missingFacts =
                                    canResolveFormula(this, targetFormula).missing]]]
    ELSE [system |-> this, ls |-> LoopStart(this)]

\* ------------------------------------------------------------------------
\* loadFromYaml.js: loadGentzenScenario
\*
\* A scenario is [factMap, propositions, steps, targets]: factMap is the
\* resolved fact map as the sequence of its entries [name, value]
\* (Object.entries order), steps the sequence of [rule, subtype, from] with
\* subtype "undefined" when absent and `from` an array of formula strings.
\* ------------------------------------------------------------------------

\* A loader that negates every name whose entry is false.
RECURSIVE LoadFactsNegateAll(_, _, _)
LoadFactsNegateAll(sys, factMap, k) ==
    IF k > Len(factMap) THEN sys
    ELSE IF factMap[k].value
    THEN LoadFactsNegateAll(addFact(sys, factMap[k].name), factMap, k + 1)
    ELSE LoadFactsNegateAll(addFact(sys, <<"~">> \o factMap[k].name), factMap, k + 1)

\* Lines 54-64: the facts added for the entries of the fact map from k on.
RECURSIVE LoadFacts(_, _, _)
LoadFacts(sys, factMap, k) ==
    IF k > Len(factMap) THEN sys
    ELSE IF factMap[k].value
    THEN LoadFacts(addFact(sys, factMap[k].name), factMap, k + 1)
    ELSE IF ~StartsWith(factMap[k].name, <<"~">>)
    THEN LoadFacts(addFact(sys, <<"~">> \o factMap[k].name), factMap, k + 1)
    ELSE LoadFacts(sys, factMap, k + 1)

\* A loader that skips the propositions list.
LoadNoPropositions(sys, propositions, k) == sys

\* The propositions lo .. hi of the list added in order, each to the
\* system the one before left.
RECURSIVE AddPropositions(_, _, _, _)
AddPropositions(sys, propositions, lo, hi) ==
    IF hi < lo \/ ~Computed(sys) THEN sys
    ELSE IF hi = lo THEN addProposition(sys, propositions[lo]).sys
    ELSE AddPropositions(AddPropositions(sys, propositions, lo, (lo + hi) \div 2),
                         propositions, ((lo + hi) \div 2) + 1, hi)

\* Lines 66-71: one proposition step per declared proposition, from the
\* k-th on.
LoadPropositions(sys, propositions, k) ==
    AddPropositions(sys, propositions, k, Len(propositions))

\* A resolution of `from` that never reports a missing fact.
RECURSIVE ResolveFromNoMissing(_, _, _, _)
ResolveFromNoMissing(sys, from, k, acc) ==
    IF k > Len(from) THEN acc
    ELSE IF from[k] \in sys.facts
    THEN ResolveFromNoMissing(sys, from, k + 1,
             [acc EXCEPT !.stepObjects =
                 Append(@, Step("FactRef", "factRef", << >>, {from[k]}))])
    ELSE IF Len(findStepsContaining(sys, from[k])) > 0
    THEN ResolveFromNoMissing(sys, from, k + 1,
             [acc EXCEPT !.stepObjects = Append(@, findStepsContaining(sys, from[k])[1])])
    ELSE ResolveFromNoMissing(sys, from, k + 1, acc)

\* Lines 81-107: the step objects found for from[k..], and the missing facts.
RECURSIVE ResolveFrom(_, _, _, _)
ResolveFrom(sys, from, k, acc) ==
    IF k > Len(from) THEN acc
    ELSE IF from[k] \in sys.facts
    THEN ResolveFrom(sys, from, k + 1,
             [acc EXCEPT !.stepObjects =
                 Append(@, Step("FactRef", "factRef", << >>, {from[k]}))])
    ELSE IF Len(findStepsContaining(sys, from[k])) > 0
    THEN ResolveFrom(sys, from, k + 1,
             [acc EXCEPT !.stepObjects = Append(@, findStepsContaining(sys, from[k])[1])])
    ELSE IF ~canResolveFormula(sys, from[k]).canResolve
    THEN ResolveFrom(sys, from, k + 1,
             [acc EXCEPT !.missingFacts = @ \o canResolveFormula(sys, from[k]).missing])
    ELSE ResolveFrom(sys, from, k + 1, acc)

\* Lines 130-171: the rule switch.  No rule is called when the rule is
\* unknown or the arity does not fit: nothing is thrown and nothing pushed.
ScenarioRuleResult(sys, step, stepObjects) ==
    CASE step.rule = "alpha" /\ Len(stepObjects) = 2 ->
            alphaRule(sys, stepObjects[1], stepObjects[2],
                      IF step.subtype = "undefined" THEN "and" ELSE step.subtype)
      [] step.rule = "beta" /\ Len(stepObjects) = 2 ->
            betaRule(sys, stepObjects[1], stepObjects[2])
      [] step.rule = "contraposition" /\ Len(stepObjects) = 1 ->
            contrapositionRule(sys, stepObjects[1])
      [] step.rule = "doubleNegation" /\ Len(stepObjects) = 1 ->
            doubleNegationRule(sys, stepObjects[1],
                      IF step.subtype = "undefined" THEN "introduction" ELSE step.subtype)
      [] step.rule = "equivalence" /\ Len(stepObjects) = 2 ->
            equivalenceRule(sys, stepObjects[1], stepObjects[2])
      [] OTHER -> [RuleThrows(sys) EXCEPT !.ok = TRUE]

\* A catch clause that records the step it caught in skippedSteps.
ApplyScenarioRuleRecording(sys, step, stepObjects) ==
    IF ScenarioRuleResult(sys, step, stepObjects).ok
    THEN ScenarioRuleResult(sys, step, stepObjects).sys
    ELSE [sys EXCEPT !.skippedSteps =
             Append(@, [stepIndex |-> Len(sys.skippedSteps) + 1, rule |-> step.rule,
                        subtype |-> step.subtype, from |-> step.from,
                        missingFacts |-> << >>])]

\* Lines 127-176: try the rule switch; the catch clause logs a warning and
\* goes on to the next step, the system as the rule left it.
ApplyScenarioRule(sys, step, stepObjects) ==
    ScenarioRuleResult(sys, step, stepObjects).sys

\* Lines 73-181: the scenario steps from index on (1-based), in order.
RECURSIVE ProcessScenarioSteps(_, _, _)
ProcessScenarioSteps(sys, steps, index) ==
    IF index > Len(steps) THEN sys
    ELSE LET step == steps[index]
             r == ResolveFrom(sys, step.from, 1,
                              [stepObjects |-> << >>, missingFacts |-> << >>])
         IN  IF Len(r.missingFacts) > 0
             THEN ProcessScenarioSteps(
                      [sys EXCEPT
                         !.skippedSteps = Append(@,
                             [stepIndex |-> index, rule |-> step.rule,
                              subtype |-> step.subtype, from |-> step.from,
                              missingFacts |-> r.missingFacts]),
                         !.missingFacts = @ \cup
                             {r.missingFacts[k] : k \in 1..Len(r.missingFacts)}],
                      steps, index + 1)
             ELSE IF Len(r.stepObjects) # Len(step.from)
             THEN ProcessScenarioSteps(sys, steps, index + 1)
             ELSE ProcessScenarioSteps(ApplyScenarioRule(sys, step, r.stepObjects),
                                       steps, index + 1)

\* loadGentzenScenario: the system it returns for the scenario.
loadGentzenScenario(scenario) ==
    ProcessScenarioSteps(
        LoadPropositions(LoadFacts(NewSystem, scenario.factMap, 1),
                         scenario.propositions, 1),
        scenario.steps, 1)

\* ------------------------------------------------------------------------
\* gentzen.js on objects.  The systems, arrays, step objects and Sets the
\* program allocates are numbered in allocation order; a system object holds
\* the numbers of its facts Set, steps array, missingFacts Set and
\* skippedSteps array, a step object the numbers of its `from` array and
\* its formulas Set.  clonedFrom notes the system a clone was made of.
\* ------------------------------------------------------------------------

\* new GentzenSystem()
heapNewSystem(h, clonedFrom) ==
    [h EXCEPT !.sets = @ \o <<{}, {}>>,
              !.arrays = @ \o << << >>, << >> >>,
              !.systems = Append(@, [facts |-> Len(h.sets) + 1,
                                     missingFacts |-> Len(h.sets) + 2,
                                     steps |-> Len(h.arrays) + 1,
                                     skippedSteps |-> Len(h.arrays) + 2,
                                     clonedFrom |-> clonedFrom])]

\* The steps array of a system, as the numbers of its step objects.
StepsOf(h, sys) == h.arrays[h.systems[sys].steps]

\* The step object as a value, its antecedents included.
RECURSIVE StepView(_, _)
StepView(h, id) ==
    Step(h.stepObjs[id].origin, h.stepObjs[id].ruleType,
         [k \in 1..Len(h.arrays[h.stepObjs[id].from]) |->
             StepView(h, h.arrays[h.stepObjs[id].from][k])],
         h.sets[h.stepObjs[id].formulas])

\* The system object as a value.
SystemView(h, sys) ==
    [facts |-> h.sets[h.systems[sys].facts],
     steps |-> [k \in 1..Len(StepsOf(h, sys)) |-> StepView(h, StepsOf(h, sys)[k])],
     missingFacts |-> h.sets[h.systems[sys].missingFacts],
     skippedSteps |-> << >>]

\* newSys.facts = new Set(system.facts), newSys being the system allocated
\* last.
heapCopyFacts(h, source) ==
    [h EXCEPT !.sets = Append(@, h.sets[h.systems[source].facts]),
              !.systems[Len(h.systems)].facts = Len(h.sets) + 1]

\* system.steps.map(step => ({..., from: step.from, formulas: new
\* Set(step.formulas)})) from element k on: the heap and the new step
\* objects.
RECURSIVE heapCopySteps(_, _, _, _)
heapCopySteps(h, source, k, copies) ==
    IF k > Len(source) THEN [heap |-> h, ids |-> copies]
    ELSE heapCopySteps(
             [h EXCEPT !.sets = Append(@, h.sets[h.stepObjs[source[k]].formulas]),
                       !.stepObjs = Append(@, [h.stepObjs[source[k]] EXCEPT
                                                  !.formulas = Len(h.sets) + 1])],
             source, k + 1, Append(copies, Len(h.stepObjs) + 1))

\* newSys.steps = the mapped array, newSys being the system allocated last.
heapSetSteps(r) ==
    [r.heap EXCEPT !.arrays = Append(@, r.ids),
                   !.systems[Len(r.heap.systems)].steps = Len(r.heap.arrays) + 1]

\* A clone that takes over the facts Set and the steps array of the source.
heapCloneSystemShallow(h, source) ==
    [heapNewSystem(h, source) EXCEPT
        !.systems[Len(h.systems) + 1].facts = h.systems[source].facts,
        !.systems[Len(h.systems) + 1].steps = h.systems[source].steps]

\* cloneSystem(system): the clone is the system allocated last.
heapCloneSystem(h, source) ==
    heapSetSteps(heapCopySteps(heapCopyFacts(heapNewSystem(h, source), source),
                               StepsOf(h, source), 1, << >>))

\* this.facts.add(formulaStr)
heapAddFact(h, this, formulaStr) ==
    [h EXCEPT !.sets[h.systems[this].facts] = @ \cup {formulaStr}]

\* this.missingFacts.add(factName), for every fact of the array
heapTrackAll(h, this, missing) ==
    [h EXCEPT !.sets[h.systems[this].missingFacts] =
                 @ \cup {missing[k] : k \in 1..Len(missing)}]

\* const newStep = {origin, ruleType, from: [...], formulas: new Set([...])};
\* this.steps.push(newStep)
heapPush(h, this, from, step) ==
    [h EXCEPT !.sets = Append(@, step.formulas),
              !.arrays = [Append(@, from) EXCEPT
                             ![h.systems[this].steps] = Append(@, Len(h.stepObjs) + 1)],
              !.stepObjs = Append(@, Step(step.origin, step.ruleType,
                                          Len(h.arrays) + 1, Len(h.sets) + 1))]

\* A rule method on the system object `this`, r being what the rule makes
\* of the values: the step is pushed unless the rule throws.
heapApply(h, this, from, r) ==
    [ok |-> r.ok, step |-> r.step,
     heap |-> IF r.ok THEN heapPush(h, this, from, r.step) ELSE h]

\* GentzenSystem.addProposition
heapAddProposition(h, this, formulaStr) ==
    heapPush(h, this, << >>, addProposition(SystemView(h, this), formulaStr).step)

\* GentzenSystem.alphaRule
heapAlphaRule(h, this, step1, step2, ruleType) ==
    heapApply(h, this, <<step1, step2>>,
              alphaRule(SystemView(h, this), StepView(h, step1), StepView(h, step2),
                        ruleType))

\* GentzenSystem.betaRule
heapBetaRule(h, this, step1, step2) ==
    heapApply(h, this, <<step1, step2>>,
              betaRule(SystemView(h, this), StepView(h, step1), StepView(h, step2)))

\* GentzenSystem.equivalenceRule
heapEquivalenceRule(h, this, step1, step2) ==
    heapApply(h, this, <<step1, step2>>,
              equivalenceRule(SystemView(h, this), StepView(h, step1), StepView(h, step2)))

\* GentzenSystem.contrapositionRule
heapContrapositionRule(h, this, step) ==
    heapApply(h, this, <<step>>, contrapositionRule(SystemView(h, this), StepView(h, step)))

\* GentzenSystem.doubleNegationRule
heapDoubleNegationRule(h, this, step, mode) ==
    heapApply(h, this, <<step>>,
              doubleNegationRule(SystemView(h, this), StepView(h, step), mode))

\* The rule of a binary combo on sysClone.steps[i] and sysClone.steps[j].
heapBinaryRule(h, sysClone, i, j, combo) ==
    IF combo.rule = "alpha"
    THEN heapAlphaRule(h, sysClone, StepsOf(h, sysClone)[i], StepsOf(h, sysClone)[j],
                       combo.subtype)
    ELSE IF combo.rule = "beta"
    THEN heapBetaRule(h, sysClone, StepsOf(h, sysClone)[i], StepsOf(h, sysClone)[j])
    ELSE heapEquivalenceRule(h, sysClone, StepsOf(h, sysClone)[i], StepsOf(h, sysClone)[j])

\* The rule of a unary combo on sysClone.steps[i].
heapUnaryRule(h, sysClone, i, combo) ==
    IF combo.rule = "contraposition"
    THEN heapContrapositionRule(h, sysClone, StepsOf(h, sysClone)[i])
    ELSE heapDoubleNegationRule(h, sysClone, StepsOf(h, sysClone)[i], combo.mode)

\* if (didWeDeriveNewFormula(this, sysClone, newStep)) newSystems.push(sysClone),
\* skipped when the rule threw.
heapKeep(acc, this, sysClone, r) ==
    [heap |-> r.heap,
     newSystems |->
         IF r.ok /\ didWeDeriveNewFormula(SystemView(r.heap, this),
                                          SystemView(r.heap, sysClone), r.step)
         THEN Append(acc.newSystems, sysClone)
         ELSE acc.newSystems]

\* One pass of the body of the first loop nest.
heapTryBinary(acc, this, i, j, c) ==
    heapKeep(acc, this, Len(acc.heap.systems) + 1,
             heapBinaryRule(heapCloneSystem(acc.heap, this), Len(acc.heap.systems) + 1,
                            i, j, BinaryCombos[c]))

\* One pass of the body of the second loop nest.
heapTryUnary(acc, this, i, c) ==
    heapKeep(acc, this, Len(acc.heap.systems) + 1,
             heapUnaryRule(heapCloneSystem(acc.heap, this), Len(acc.heap.systems) + 1,
                           i, UnaryCombos[c]))

\* The passes lo .. hi - 1 (0-based) of the first loop nest, in order,
\* stepCount being this.steps.length as read before the loops.
RECURSIVE heapExpandBinary(_, _, _, _, _)
heapExpandBinary(acc, this, lo, hi, stepCount) ==
    IF hi <= lo \/ ~Computed(acc) THEN acc
    ELSE IF hi = lo + 1
    THEN heapTryBinary(acc, this, (lo \div (Len(BinaryCombos) * stepCount)) + 1,
                       ((lo \div Len(BinaryCombos)) % stepCount) + 1,
                       (lo % Len(BinaryCombos)) + 1)
    ELSE heapExpandBinary(heapExpandBinary(acc, this, lo, (lo + hi) \div 2, stepCount),
                          this, (lo + hi) \div 2, hi, stepCount)

\* The passes lo .. hi - 1 of the second loop nest, in order.
RECURSIVE heapExpandUnary(_, _, _, _)
heapExpandUnary(acc, this, lo, hi) ==
    IF hi <= lo \/ ~Computed(acc) THEN acc
    ELSE IF hi = lo + 1
    THEN heapTryUnary(acc, this, (lo \div Len(UnaryCombos)) + 1,
                      (lo % Len(UnaryCombos)) + 1)
    ELSE heapExpandUnary(heapExpandUnary(acc, this, lo, (lo + hi) \div 2),
                         this, (lo + hi) \div 2, hi)

\* GentzenSystem.expandOneLevel: the heap after it and the systems returned.
heapExpandOneLevel(h, this) ==
    IF Len(StepsOf(h, this)) >= MAX_STEPS THEN [heap |-> h, newSystems |-> << >>]
    ELSE heapExpandUnary(
             heapExpandBinary([heap |-> h, newSystems |-> << >>], this, 0,
                              Len(StepsOf(h, this)) * Len(StepsOf(h, this))
                                  * Len(BinaryCombos),
                              Len(StepsOf(h, this))),
             this, 0, Len(StepsOf(h, this)) * Len(UnaryCombos))

\* A loop body that pushes the child whatever its signature.
heapVisitAlways(acc, child, sig, depth, path) ==
    [acc EXCEPT !.visited = @ \cup {sig},
                !.queue = Append(@, [system |-> child, depth |-> depth + 1,
                                     path |-> Append(path, StepLabel(depth + 1))])]

\* visited.add(sig); queue.push(...) when the signature is new.
heapVisit(acc, child, sig, depth, path) ==
    IF sig \in acc.visited THEN acc
    ELSE [acc EXCEPT !.visited = @ \cup {sig},
                     !.queue = Append(@, [system |-> child, depth |-> depth + 1,
                                          path |-> Append(path, StepLabel(depth + 1))])]

\* The body of the for loop over the children, for one child.
heapProcessChild(h, child, targetFormula, depth, path, acc) ==
    IF isProved(SystemView(h, child), targetFormula) THEN [acc EXCEPT !.found = child]
    ELSE heapVisit(acc, child, getSystemSignature(SystemView(h, child)), depth, path)

\* The for loop over the children lo .. hi, in order, up to the return.
RECURSIVE heapProcessChildren(_, _, _, _, _, _, _, _)
heapProcessChildren(h, children, lo, hi, targetFormula, depth, path, acc) ==
    IF acc.found > 0 \/ hi < lo THEN acc
    ELSE IF hi = lo THEN heapProcessChild(h, children[lo], targetFormula, depth, path, acc)
    ELSE heapProcessChildren(h, children, ((lo + hi) \div 2) + 1, hi, targetFormula,
             depth, path,
             heapProcessChildren(h, children, lo, (lo + hi) \div 2, targetFormula,
                                 depth, path, acc))

\* The locals of searchForProof at its return.
heapReturn(run, proven, path, depth) ==
    [run EXCEPT !.pc = "done",
                !.result = [@ EXCEPT !.proven = proven, !.path = path, !.depth = depth]]

\* Lines 430-442: the children of the dequeued state are looked at.
heapAfterExpand(run, head, e, r) ==
    [heap |-> e.heap,
     run |-> IF r.found > 0
             THEN heapReturn([run EXCEPT !.queue = r.queue, !.visited = r.visited],
                             TRUE, Append(head.path, "final_step"), head.depth + 1)
             ELSE [run EXCEPT !.queue = r.queue, !.visited = r.visited]]

heapExpandHead(h, run, head, e) ==
    heapAfterExpand(run, head, e,
        heapProcessChildren(e.heap, e.newSystems, 1, Len(e.newSystems),
                            run.targetFormula, head.depth, head.path,
                            [found |-> 0, queue |-> run.queue, visited |-> run.visited]))

\* Lines 418-443: the body of the while loop after the bounds test, the
\* head already shifted off run.queue.
heapLoopBody(h, run, head) ==
    IF isProved(SystemView(h, head.system), run.targetFormula)
    THEN [heap |-> h, run |-> heapReturn(run, TRUE, head.path, head.depth)]
    ELSE IF head.depth >= run.maxDepth THEN [heap |-> h, run |-> run]
    ELSE heapExpandHead(h, run, head, heapExpandOneLevel(h, head.system))

\* Lines 414-443: the loop condition and one run of the loop body.
heapSearchStep(h, run) ==
    IF Len(run.queue) = 0 THEN [heap |-> h, run |-> [run EXCEPT !.pc = "done"]]
    ELSE IF BoundExceeded(run.iterations + 1, Len(run.queue))
    THEN [heap |-> h, run |-> [run EXCEPT !.pc = "done", !.iterations = @ + 1]]
    ELSE heapLoopBody(h, [run EXCEPT !.iterations = @ + 1, !.queue = Tail(@)],
                      Head(run.queue))

\* Lines 388-412: searchForProof on the system object `this` up to the loop.
heapSearchStart(h, run, this, targetFormula, maxDepth) ==
    IF isProved(SystemView(h, this), targetFormula)
    THEN [heap |-> h, run |-> heapReturn(run, TRUE, << >>, 0)]
    ELSE IF ~canResolveFormula(SystemView(h, this), targetFormula).canResolve
    THEN [heap |-> heapTrackAll(h, this,
                       canResolveFormula(SystemView(h, this), targetFormula).missing),
          run |-> [run EXCEPT !.pc = "done",
                              !.result = [@ EXCEPT !.missingFacts =
                                  canResolveFormula(SystemView(h, this),
                                                    targetFormula).missing]]]
    ELSE [heap |-> h,
          run |-> [run EXCEPT !.pc = "running",
                              !.queue = << [system |-> this, depth |-> 0, path |-> << >>] >>,
                              !.visited = {getSystemSignature(SystemView(h, this))}]]


\* ------------------------------------------------------------------------
\* State
\* ------------------------------------------------------------------------

VARIABLES
    system,         \* the GentzenSystem in use: facts, steps, missingFacts, skippedSteps
    pc,             \* "idle": between calls; "done": searchForProof has returned or
                    \* thrown; "running": it has not returned
    calls,          \* number of calls made on the system so far
    scenario,       \* the scenario the system was loaded from (NoScenario: none)
    lastCall,       \* the last call made on the system: method, arguments, whether
                    \* it threw, the step it returned and the system before it
    targetFormula,  \* searchForProof's targetFormula argument
    maxDepth,       \* searchForProof's maxDepth argument
    queue,          \* searchForProof's queue of {system, depth, path} at the return
    visited,        \* searchForProof's set of visited signatures at the return
    iterations,     \* searchForProof's iterations counter at the return
    result,         \* the result object searchForProof returned
    outcome,        \* the return statement searchForProof left by ("none" before)
    dequeues,       \* number of queue.shift() executed by the search
    expansions,     \* number of expandOneLevel calls made by the search
    proofState,     \* the state isProved(targetFormula) held in, when proven
    startSystem,    \* the receiver as it was when searchForProof was called
    formulaStr,     \* parser harness: the string given to parseFormula
    parsed,         \* parser harness: what parseFormula returned (or that it threw)
    rendered,       \* parser harness: parsed.toString()
    reparsed,       \* parser harness: what parseFormula returned for the rendering
    rerendered,     \* parser harness: reparsed.toString()
    pcParse,        \* parser harness: the step reached, "off" when not in use
    heap,           \* object harness: the objects allocated so far, by kind
    hrun            \* object harness: the locals of searchForProof on the heap

systemVars == <<system, calls, scenario, lastCall>>
searchVars == <<pc, targetFormula, maxDepth, queue, visited, iterations, result,
                outcome, dequeues, expansions, proofState, startSystem>>
parseVars  == <<formulaStr, parsed, rendered, reparsed, rerendered, pcParse>>
heapVars   == <<heap, hrun>>
vars == <<systemVars, searchVars, parseVars, heapVars>>

NoFormula == << >>
NoStep == [origin |-> "", ruleType |-> "", from |-> << >>, formulas |-> {}]

\* A call of method op on the system `before` with the step arguments
\* steps, the subtype or mode argument and the formula argument.
Call(op, steps, subtype, formula, threw, returned, before) ==
    [op |-> op, steps |-> steps, subtype |-> subtype, formula |-> formula,
     threw |-> threw, returned |-> returned, before |-> before]

NoCall == Call("none", << >>, "undefined", NoFormula, FALSE, NoStep, NewSystem)
NoParse == [ok |-> FALSE, position |-> -1]

SearchIdle ==
    /\ pc = "idle"
    /\ targetFormula = NoFormula
    /\ maxDepth = 0
    /\ queue = << >>
    /\ visited = {}
    /\ iterations = 0
    /\ result = InitialResult
    /\ outcome = "none"
    /\ dequeues = 0
    /\ expansions = 0
    /\ proofState = NewSystem
    /\ startSystem = NewSystem

\* No object allocated.
EmptyHeap == [systems |-> << >>, arrays |-> << >>, stepObjs |-> << >>, sets |-> << >>]

\* searchForProof not called on the heap.
NoRun ==
    [pc |-> "off", calls |-> 0, targetFormula |-> NoFormula, maxDepth |-> 0,
     queue |-> << >>, visited |-> {}, iterations |-> 0, result |-> InitialResult,
     before |-> NewSystem]

HeapOff ==
    /\ heap = EmptyHeap
    /\ hrun = NoRun

ParseOff ==
    /\ formulaStr = NoFormula
    /\ parsed = NoParse
    /\ rendered = NoFormula
    /\ reparsed = NoParse
    /\ rerendered = NoFormula
    /\ pcParse = "off"

\* system.searchForProof(target, depth)
SearchStart(target, depth) ==
    /\ pc = "idle"
    /\ calls' = calls + 1
    /\ targetFormula' = target
    /\ maxDepth' = depth
    /\ startSystem' = system
    /\ \E s \in {searchForProof(system, target, depth)} :
          /\ system' = s.system
          /\ result' = s.ls.result
          /\ queue' = s.ls.queue
          /\ visited' = s.ls.visited
          /\ iterations' = s.ls.iterations
          /\ dequeues' = s.ls.dequeues
          /\ expansions' = s.ls.expansions
          /\ proofState' = s.ls.proof
          /\ outcome' = s.ls.ret
          /\ pc' = IF s.ls.ret = "none" THEN "running" ELSE "done"
          /\ lastCall' = Call("searchForProof", << >>, "undefined", target,
                              s.ls.ret = "threw", NoStep, system)
    /\ UNCHANGED <<scenario, parseVars, heapVars>>

\* ------------------------------------------------------------------------
\* Formula strings and scenarios used as inputs
\* ------------------------------------------------------------------------

X == <<"X">>
Y == <<"Y">>
P == <<"P">>
Q == <<"Q">>
A == <<"A">>
B == <<"B">>
C == <<"C">>
NotOf(f) == <<"~">> \o f

\* `(${A} op ${B})` for an operator alias of several characters.
ComposeAlias(F, alias, G) == <<"(">> \o F \o <<" ">> \o alias \o <<" ">> \o G \o <<")">>

CustomerIsVIP == <<"C","u","s","t","o","m","e","r","I","s","V","I","P">>
PaymentProcessed == <<"P","a","y","m","e","n","t","P","r","o","c","e","s","s","e","d">>
ProcessOrder == <<"P","r","o","c","e","s","s","O","r","d","e","r">>
SendAlert == <<"S","e","n","d","A","l","e","r","t">>
ScheduleMaintenance ==
    <<"S","c","h","e","d","u","l","e","M","a","i","n","t","e","n","a","n","c","e">>

NoScenario ==
    [name |-> "none", factMap |-> << >>, propositions |-> << >>, steps |-> << >>,
     targets |-> << >>]

\* The fact map {X: true, Y: false} with one proposition P.
ScenarioXY ==
    [name |-> "XY",
     factMap |-> << [name |-> X, value |-> TRUE], [name |-> Y, value |-> FALSE] >>,
     propositions |-> << P >>,
     steps |-> << >>,
     targets |-> << X, Y, NotOf(Y), NotOf(NotOf(NotOf(Y))), Compose(P, "|", P),
                    Compose(X, U2227, Q), <<"(", "X">> >>]

\* The end-to-end scenario (README, examples/scenarios/mixed-scenario.yaml).
ScenarioOrder ==
    [name |-> "order",
     factMap |-> << [name |-> CustomerIsVIP, value |-> TRUE],
                    [name |-> PaymentProcessed, value |-> TRUE] >>,
     propositions |-> << ProcessOrder, SendAlert, ScheduleMaintenance >>,
     steps |-> << [rule |-> "alpha", subtype |-> "and",
                   from |-> << CustomerIsVIP, PaymentProcessed >>],
                  [rule |-> "alpha", subtype |-> "implies",
                   from |-> << Compose(CustomerIsVIP, U2227, PaymentProcessed),
                               ProcessOrder >>] >>,
     targets |-> << Compose(CustomerIsVIP, U2227, PaymentProcessed), ProcessOrder >>]

\* The operator-alias scenario of tests/unit/operator-aliases.test.js, with
\* short names: the second step names the conjunction with the alias "AND".
ScenarioAlias ==
    [name |-> "alias",
     factMap |-> << [name |-> X, value |-> TRUE], [name |-> Y, value |-> TRUE],
                    [name |-> Q, value |-> FALSE] >>,
     propositions |-> << P >>,
     steps |-> << [rule |-> "alpha", subtype |-> "and", from |-> << X, Y >>],
                  [rule |-> "alpha", subtype |-> "implies",
                   from |-> << <<"(","X"," ","A","N","D"," ","Y",")">>, P >>] >>,
     targets |-> << <<"(","X"," ","A","N","D"," ","Y",")">>, P, Q,
                    Compose(P, U2192, P) >>]

\* Declared propositions that no step concludes.
ScenarioProps ==
    [name |-> "props",
     factMap |-> << [name |-> X, value |-> TRUE], [name |-> NotOf(Y), value |-> TRUE] >>,
     propositions |-> << P, Q >>,
     steps |-> << [rule |-> "beta", subtype |-> "undefined", from |-> << P, Q >>] >>,
     targets |-> << P, Q, NotOf(NotOf(Q)), Compose(Q, "&", P), NotOf(P) >>]


\* One proposition A and three facts that are formulas over A: the search
\* for ~A to depth 3 dequeues more than MAX_ITERATIONS states without the
\* queue ever exceeding MAX_QUEUE_SIZE.
ScenarioNarrow ==
    [name |-> "narrow",
     factMap |-> << [name |-> Compose(A, U2227, A), value |-> TRUE],
                    [name |-> Compose(A, U2227, Compose(A, U2192, A)), value |-> TRUE],
                    [name |-> Compose(Compose(A, U2192, A), U2227, A), value |-> TRUE] >>,
     propositions |-> << A >>,
     steps |-> << >>,
     targets |-> << NotOf(A), Compose(A, U2192, A), <<"A", " ", "&", " ", "A">> >>]

\* Three propositions: the second level of the search overflows the queue.
ScenarioWide ==
    [name |-> "wide",
     factMap |-> << >>,
     propositions |-> << A, B, C >>,
     steps |-> << >>,
     targets |-> << NotOf(A), Compose(Compose(B, U2228, A), U2192, C), C >>]

\* Two propositions and targets found after one and after two rounds.
ScenarioTwo ==
    [name |-> "two",
     factMap |-> << [name |-> B, value |-> FALSE], [name |-> NotOf(C), value |-> FALSE] >>,
     propositions |-> << A, C >>,
     steps |-> << >>,
     targets |-> << ComposeAlias(A, <<"=", ">">>, C), Compose(NotOf(C), U2192, NotOf(A)), B >>]

\* Steps that make their rule throw (contraposition of a formula that is
\* no implication, alpha with a subtype it does not have), a step that
\* names a fact nobody supplies, and a step that applies.
ScenarioErrors ==
    [name |-> "errors",
     factMap |-> << [name |-> X, value |-> TRUE] >>,
     propositions |-> << P, Q >>,
     steps |-> << [rule |-> "contraposition", subtype |-> "undefined", from |-> << P >>],
                  [rule |-> "alpha", subtype |-> "xor", from |-> << P, Q >>],
                  [rule |-> "beta", subtype |-> "undefined", from |-> << P, Y >>],
                  [rule |-> "beta", subtype |-> "undefined", from |-> << P, Q >>] >>,
     targets |-> << Compose(P, U2228, Q), X, Compose(P, U2227, Q) >>]

Scenarios ==
    {ScenarioXY, ScenarioOrder, ScenarioAlias, ScenarioProps,
     ScenarioNarrow, ScenarioWide, ScenarioTwo, ScenarioErrors}

\* Bounds of the model
MaxCalls == 3
MaxDepthArg == 1
MaxScenarioDepth == 3

\* Inputs of the direct calls
FactPool == {X, NotOf(Y)}
\* A proposition that is an implication written with an alias under two
\* double negations: ~~~~(P -> ~Q)
ImplicationAlias == <<"~","~","~","~","(","P"," ","-",">"," ","~","Q",")">>
PropPool == {P, Q, ImplicationAlias}
TargetPool ==
    {X, NotOf(NotOf(X)), Y, Compose(P, "&", Q), Compose(Q, U2228, Y), <<"(", "X">>,
     ComposeAlias(P, <<"<", "-", ">">>, Q)}

\* ------------------------------------------------------------------------
\* Actions on the system
\* ------------------------------------------------------------------------

Idle == pc = "idle" /\ calls < MaxCalls

\* loadGentzenScenario builds the system it returns.
LoadScenario(sc) ==
    /\ pc = "idle"
    /\ calls = 0
    /\ scenario = NoScenario
    /\ system' = loadGentzenScenario(sc)
    /\ scenario' = sc
    /\ calls' = calls + 1
    /\ lastCall' = Call("loadGentzenScenario", << >>, "undefined", NoFormula, FALSE,
                        NoStep, system)
    /\ UNCHANGED <<searchVars, parseVars, heapVars>>

\* system.addFact(f)
AddFact(f) ==
    /\ Idle
    /\ system' = addFact(system, f)
    /\ calls' = calls + 1
    /\ lastCall' = Call("addFact", << >>, "undefined", f, FALSE, NoStep, system)
    /\ UNCHANGED <<scenario, searchVars, parseVars, heapVars>>

\* system.addProposition(p)
AddProposition(p) ==
    /\ Idle
    /\ system' = addProposition(system, p).sys
    /\ calls' = calls + 1
    /\ lastCall' = Call("addProposition", << >>, "undefined", p, FALSE,
                        addProposition(system, p).step, system)
    /\ UNCHANGED <<scenario, searchVars, parseVars, heapVars>>

\* The step objects the loader makes for the facts named in `from`.
FactRefSteps(sys) == { Step("FactRef", "factRef", << >>, {f}) : f \in sys.facts }

\* Step objects made by a caller that hold no formula, or two.
MalformedSteps ==
    { Step("Caller", "none", << >>, {}), Step("Caller", "none", << >>, {P, Q}) }

\* The step objects a rule is called with: steps of the system, fact
\* references and the caller's own objects.
StepArguments(sys) ==
    { sys.steps[n] : n \in 1..Len(sys.steps) } \cup FactRefSteps(sys) \cup MalformedSteps

\* A rule method called on the system, r being what it returns: the system
\* is as before when the rule throws.
ApplyRule(op, steps, subtype, r) ==
    /\ Idle
    /\ system' = r.sys
    /\ calls' = calls + 1
    /\ lastCall' = Call(op, steps, subtype, NoFormula, ~r.ok, r.step, system)
    /\ UNCHANGED <<scenario, searchVars, parseVars, heapVars>>

AlphaRule ==
    \E s1, s2 \in StepArguments(system) : \E t \in {"and", "implies", "xor"} :
        ApplyRule("alphaRule", <<s1, s2>>, t, alphaRule(system, s1, s2, t))

BetaRule ==
    \E s1, s2 \in StepArguments(system) :
        ApplyRule("betaRule", <<s1, s2>>, "undefined", betaRule(system, s1, s2))

ContrapositionRule ==
    \E s1 \in StepArguments(system) :
        ApplyRule("contrapositionRule", <<s1>>, "undefined", contrapositionRule(system, s1))

DoubleNegationRule ==
    \E s1 \in StepArguments(system) : \E m \in {"introduction", "elimination", "removal"} :
        ApplyRule("doubleNegationRule", <<s1>>, m, doubleNegationRule(system, s1, m))

EquivalenceRule ==
    \E s1, s2 \in StepArguments(system) :
        ApplyRule("equivalenceRule", <<s1, s2>>, "undefined", equivalenceRule(system, s1, s2))

\* The caller goes on after searchForProof returned.
Continue ==
    /\ pc = "done"
    /\ calls < MaxCalls
    /\ pc' = "idle"
    /\ targetFormula' = NoFormula
    /\ maxDepth' = 0
    /\ queue' = << >>
    /\ visited' = {}
    /\ iterations' = 0
    /\ result' = InitialResult
    /\ outcome' = "none"
    /\ dequeues' = 0
    /\ expansions' = 0
    /\ proofState' = NewSystem
    /\ startSystem' = NewSystem
    /\ UNCHANGED <<systemVars, parseVars, heapVars>>

\* searchForProof called directly.
Search ==
    /\ calls < MaxCalls
    /\ \E t \in TargetPool : \E d \in 0..MaxDepthArg : SearchStart(t, d)

\* searchForProof called on a target of the loaded scenario.
SearchTarget ==
    /\ scenario # NoScenario
    /\ calls = 1
    /\ \E k \in 1..Len(scenario.targets) : \E d \in 0..MaxScenarioDepth :
          SearchStart(scenario.targets[k], d)

\* ------------------------------------------------------------------------
\* The parser on its own: parse, render, parse the rendering, render again
\* ------------------------------------------------------------------------

MaxTokens == 6

AtomLexemes == {"A", "XORY"}
BinaryTags == {"and", "or", "implies", "iff"}

\* The token sequences of n tokens that the grammar of formulaParser.js
\* accepts.
RECURSIVE ValidTokens(_)
ValidTokens(n) ==
    IF n = 1 THEN { <<a>> : a \in AtomLexemes }
    ELSE { <<"not">> \o f : f \in ValidTokens(n - 1) }
         \cup (IF n < 3 THEN {}
               ELSE { <<"(">> \o f \o <<")">> : f \in ValidTokens(n - 2) }
                    \cup UNION { { f \o <<o>> \o g :
                                     f \in ValidTokens(i), g \in ValidTokens(n - 1 - i),
                                     o \in BinaryTags } : i \in 1..(n - 2) })

\* The spellings of the tokens, one column of OPERATOR_MAPPINGS per style.
Styles == {"symbol", "word", "ascii", "arrow"}

Spelling(lexeme, style) ==
    CASE lexeme = "A"    -> <<"A">>
      [] lexeme = "XORY" -> <<"X","O","R","Y">>
      [] lexeme = "("    -> <<"(">>
      [] lexeme = ")"    -> <<")">>
      [] lexeme = "and"  ->
            CASE style = "symbol" -> <<U2227>>
              [] style = "word"   -> <<"A","N","D">>
              [] OTHER            -> <<"&">>
      [] lexeme = "or"   ->
            CASE style = "symbol" -> <<U2228>>
              [] style = "word"   -> <<"O","R">>
              [] OTHER            -> <<"|">>
      [] lexeme = "implies" ->
            CASE style = "symbol" -> <<U2192>>
              [] style = "word"   -> <<"I","M","P","L","I","E","S">>
              [] style = "ascii"  -> <<"-",">">>
              [] OTHER            -> <<"=",">">>
      [] lexeme = "iff"  ->
            CASE style = "symbol" -> <<U2194>>
              [] style = "word"   -> <<"I","F","F">>
              [] style = "ascii"  -> <<"<","-",">">>
              [] OTHER            -> <<"<","=",">">>
      [] lexeme = "not"  ->
            CASE style = "word"   -> <<"N","O","T">>
              [] style = "ascii"  -> <<"!">>
              [] OTHER            -> <<"~">>

Spell(tokens, style, sep) ==
    Join([k \in 1..Len(tokens) |-> Spelling(tokens[k], style)], sep)

\* The strings given to the parser: every accepted token sequence of up to
\* MaxTokens tokens in every style, the tokens one space apart, and without
\* spaces in the styles whose operators are not words.
\* The precedence examples of tests/unit/formula-parser.test.js.
PrecedenceExamples ==
    { <<"A"," ",U2227," ","B"," ",U2228," ","C">>,
      <<"A"," ",U2228," ","B"," ",U2192," ","C">>,
      <<"A"," ",U2192," ","B"," ",U2192," ","C">>,
      <<"A"," ",U2227," ","B"," ",U2227," ","C">> }

ParseInputs ==
    PrecedenceExamples \cup
    UNION { { Spell(t, style, <<" ">>) : t \in ValidTokens(n), style \in Styles }
            \cup { Spell(t, style, << >>) : t \in ValidTokens(n),
                                             style \in {"symbol", "ascii"} }
            : n \in 1..MaxTokens }

\* Inputs the parser must reject, made from the accepted token sequences
\* of up to MaxBadTokens tokens.
MaxBadTokens == 3

ShortTokens == UNION { ValidTokens(n) : n \in 1..MaxBadTokens }

\* A parenthesis without its partner.
UnbalancedTokens ==
    { <<"(">> \o f : f \in ShortTokens }
    \cup { f \o <<")">> : f \in ShortTokens }
    \cup { <<"(", "(">> \o f \o <<")">> : f \in ShortTokens }

\* A binary operator without its right or its left operand.
MissingOperandTokens ==
    { f \o <<o>> : f \in ShortTokens, o \in BinaryTags }
    \cup { <<o>> \o f : f \in ShortTokens, o \in BinaryTags }
    \cup { <<"(">> \o f \o <<o, ")">> : f \in ShortTokens, o \in BinaryTags }

\* A complete formula followed by more tokens.
TrailingTokens ==
    { f \o g : f \in ShortTokens, g \in ValidTokens(1) \cup ValidTokens(2) }

\* Characters that start no identifier, parenthesis or operator alias.
BadCharacters == {"%", "-", "<", "=", "1", "_", "?"}

\* An accepted formula with a bad character put in at position k.
BadCharacterInputs ==
    UNION { { Spell(SubSeq(f, 1, k), "symbol", <<" ">>) \o <<" ", c, " ">>
                  \o Spell(SubSeq(f, k + 1, Len(f)), "symbol", <<" ">>) :
                k \in 0..Len(f), c \in BadCharacters }
            \cup { Spell(SubSeq(f, 1, k), "symbol", << >>) \o <<c>>
                       \o Spell(SubSeq(f, k + 1, Len(f)), "symbol", << >>) :
                     k \in 0..Len(f), c \in {"%", "?"} }
            : f \in ShortTokens }

InvalidInputs ==
    { Spell(t, style, <<" ">>) :
        t \in UnbalancedTokens \cup MissingOperandTokens \cup TrailingTokens,
        style \in {"symbol", "word"} }
    \cup BadCharacterInputs
    \cup { << >>, <<"(", "A", " ", U2227, " ", "B">>, <<"A", " ", U2227>>,
           <<"U","s","e","r","-","N","a","m","e">>, <<"A"," ","%"," ","B">>,
           <<"A"," ","%","%"," ","B">> }

InitParse ==
    /\ system = NewSystem
    /\ calls = 0
    /\ scenario = NoScenario
    /\ lastCall = NoCall
    /\ SearchIdle
    /\ formulaStr \in ParseInputs \cup InvalidInputs
    /\ parsed = NoParse
    /\ rendered = NoFormula
    /\ reparsed = NoParse
    /\ rerendered = NoFormula
    /\ pcParse = "input"
    /\ HeapOff

\* parseFormula(formulaStr)
Parse ==
    /\ pcParse = "input"
    /\ parsed' = parseFormula(formulaStr)
    /\ pcParse' = IF parsed'.ok THEN "parsed" ELSE "rejected"
    /\ UNCHANGED <<formulaStr, rendered, reparsed, rerendered, systemVars, searchVars, heapVars>>

\* parsed.toString()
Render ==
    /\ pcParse = "parsed"
    /\ rendered' = astToString(parsed.ast)
    /\ pcParse' = "rendered"
    /\ UNCHANGED <<formulaStr, parsed, reparsed, rerendered, systemVars, searchVars, heapVars>>

\* parseFormula(rendered)
Reparse ==
    /\ pcParse = "rendered"
    /\ reparsed' = parseFormula(rendered)
    /\ pcParse' = "reparsed"
    /\ UNCHANGED <<formulaStr, parsed, rendered, rerendered, systemVars, searchVars, heapVars>>

\* reparsed.toString()
Rerender ==
    /\ pcParse = "reparsed"
    /\ reparsed.ok
    /\ rerendered' = astToString(reparsed.ast)
    /\ pcParse' = "done"
    /\ UNCHANGED <<formulaStr, parsed, rendered, reparsed, systemVars, searchVars, heapVars>>

\* ------------------------------------------------------------------------
\* Specifications
\* ------------------------------------------------------------------------

Init ==
    /\ system = NewSystem
    /\ calls = 0
    /\ scenario = NoScenario
    /\ lastCall = NoCall
    /\ SearchIdle
    /\ ParseOff
    /\ HeapOff

\* Direct use of the system: facts, propositions, rules, searches.
Next ==
    \/ \E f \in FactPool : AddFact(f)
    \/ \E p \in PropPool : AddProposition(p)
    \/ AlphaRule
    \/ BetaRule
    \/ ContrapositionRule
    \/ DoubleNegationRule
    \/ EquivalenceRule
    \/ Search
    \/ Continue

Spec == Init /\ [][Next]_vars

\* A scenario is loaded and one of its targets is searched for.
NextScenario ==
    \/ \E sc \in Scenarios : LoadScenario(sc)
    \/ SearchTarget

SpecScenario == Init /\ [][NextScenario]_vars

\* The parser on the input strings.
NextParse ==
    \/ Parse
    \/ Render
    \/ Reparse
    \/ Rerender

SpecParse == InitParse /\ [][NextParse]_vars

\* ------------------------------------------------------------------------
\* The parser on names
\* ------------------------------------------------------------------------

MaxNameLen == 3

NameChars == {"O", "R", "x", "1", "_"}

\* The strings of n characters of NameChars that begin with a letter.
RECURSIVE NamesOfLength(_)
NamesOfLength(n) ==
    IF n = 1 THEN { <<c>> : c \in { d \in NameChars : IsLetter(d) } }
    ELSE { str \o <<c>> : str \in NamesOfLength(n - 1), c \in NameChars }

\* Names that begin with, end with, hold or are an upper-case or lower-case
\* keyword alias.
KeywordNames ==
    { <<"A","N","D">>, <<"O","R">>, <<"N","O","T">>, <<"I","F","F">>,
      <<"I","M","P","L","I","E","S">>,
      <<"A","N","D","Y">>, <<"O","R","D","E","R">>, <<"N","O","T","E">>,
      <<"I","F","F","Y">>, <<"I","M","P","L","I","E","S","_","1">>,
      <<"N","O","T","_","O","K">>, <<"A","N","D","1">>,
      <<"X","O","R","Y">>, <<"B","A","N","D">>, <<"a","N","O","T">>,
      <<"a","n","d">>, <<"o","r">>, <<"n","o","t">>, <<"i","f","f">>,
      <<"O","r","d","e","r">>, <<"A","n","d">>, <<"I","f">>, <<"I","M","P","L","Y">> }

NameInputs == KeywordNames \cup UNION { NamesOfLength(n) : n \in 1..MaxNameLen }

InitLex ==
    /\ system = NewSystem
    /\ calls = 0
    /\ scenario = NoScenario
    /\ lastCall = NoCall
    /\ SearchIdle
    /\ formulaStr \in NameInputs
    /\ parsed = NoParse
    /\ rendered = NoFormula
    /\ reparsed = NoParse
    /\ rerendered = NoFormula
    /\ pcParse = "input"
    /\ HeapOff

SpecLex == InitLex /\ [][NextParse]_vars

\* ------------------------------------------------------------------------
\* searchForProof, one run of the loop body at a time
\* ------------------------------------------------------------------------

MaxLoopDepth == 3

\* MAX_STEPS propositions P: the state the search starts from has reached
\* the step ceiling.
ScenarioCeiling ==
    [name |-> "ceiling",
     factMap |-> << >>,
     propositions |-> [k \in 1..MAX_STEPS |-> P],
     steps |-> << >>,
     targets |-> << Compose(P, U2227, P), P >>]

LoopScenarios == {ScenarioNarrow, ScenarioWide, ScenarioTwo, ScenarioCeiling}

\* The locals of the running searchForProof.
Locals ==
    [ret |-> outcome, result |-> result, queue |-> queue, visited |-> visited,
     iterations |-> iterations, dequeues |-> dequeues, expansions |-> expansions,
     proof |-> proofState]

\* The locals are set from the record.
SetLocals(ls) ==
    /\ result' = ls.result
    /\ queue' = ls.queue
    /\ visited' = ls.visited
    /\ iterations' = ls.iterations
    /\ dequeues' = ls.dequeues
    /\ expansions' = ls.expansions
    /\ proofState' = ls.proof
    /\ outcome' = ls.ret
    /\ pc' = IF ls.ret = "none" THEN "running" ELSE "done"

\* system.searchForProof(target, depth) is called and reaches its loop or
\* returns before it.
SearchEnter(target, depth) ==
    /\ pc = "idle"
    /\ calls' = calls + 1
    /\ targetFormula' = target
    /\ maxDepth' = depth
    /\ startSystem' = system
    /\ \E s \in {searchForProofEntry(system, target)} :
          /\ system' = s.system
          /\ SetLocals(s.ls)
          /\ lastCall' = Call("searchForProof", << >>, "undefined", target,
                              s.ls.ret = "threw", NoStep, system)
    /\ UNCHANGED <<scenario, parseVars, heapVars>>

\* searchForProof called on a target of the loaded scenario.
SearchEnterTarget ==
    /\ scenario # NoScenario
    /\ calls = 1
    /\ \E k \in 1..Len(scenario.targets) : \E d \in 0..MaxLoopDepth :
          SearchEnter(scenario.targets[k], d)

\* One evaluation of the loop condition and run of the loop body.
SearchIterate ==
    /\ pc = "running"
    /\ SetLocals(SearchStep(Locals, targetFormula, maxDepth))
    /\ UNCHANGED <<systemVars, targetFormula, maxDepth, startSystem, parseVars, heapVars>>

NextLoop ==
    \/ \E sc \in LoopScenarios : LoadScenario(sc)
    \/ SearchEnterTarget
    \/ SearchIterate

SpecLoop == Init /\ [][NextLoop]_vars

\* ------------------------------------------------------------------------
\* Calls on the system object
\* ------------------------------------------------------------------------

\* Bounds and inputs of the calls on the heap
MaxHeapCalls == 2
MaxHeapDepth == 2
HeapFactPool == {X}
HeapPropPool == {P, Q}
HeapTargetPool ==
    {P, Y, Compose(P, U2227, Q), Compose(Compose(P, U2227, P), U2192, P),
     Compose(Compose(Compose(P, U2227, Q), U2227, P), U2227, Q)}

\* The system the calls are made on is the object allocated first.
Receiver == 1

InitHeap ==
    /\ system = NewSystem
    /\ calls = 0
    /\ scenario = NoScenario
    /\ lastCall = NoCall
    /\ SearchIdle
    /\ ParseOff
    /\ heap = heapNewSystem(EmptyHeap, 0)
    /\ hrun = [NoRun EXCEPT !.pc = "idle"]

HeapIdle == hrun.pc = "idle" /\ hrun.calls < MaxHeapCalls

\* system.addFact(f)
HeapAddFact(f) ==
    /\ HeapIdle
    /\ heap' = heapAddFact(heap, Receiver, f)
    /\ hrun' = [hrun EXCEPT !.calls = @ + 1]
    /\ UNCHANGED <<systemVars, searchVars, parseVars>>

\* system.addProposition(p)
HeapAddProposition(p) ==
    /\ HeapIdle
    /\ heap' = heapAddProposition(heap, Receiver, p)
    /\ hrun' = [hrun EXCEPT !.calls = @ + 1]
    /\ UNCHANGED <<systemVars, searchVars, parseVars>>

\* system.searchForProof(target, depth) is called and reaches its loop or
\* returns before it.
HeapSearchStart(target, depth) ==
    /\ hrun.pc = "idle"
    /\ \E s \in {heapSearchStart(heap,
                     [hrun EXCEPT !.targetFormula = target, !.maxDepth = depth,
                                  !.before = SystemView(heap, Receiver)],
                     Receiver, target, depth)} :
          /\ heap' = s.heap
          /\ hrun' = s.run
    /\ UNCHANGED <<systemVars, searchVars, parseVars>>

\* One evaluation of the loop condition and run of the loop body.
HeapSearchStep ==
    /\ hrun.pc = "running"
    /\ \E s \in {heapSearchStep(heap, hrun)} :
          /\ heap' = s.heap
          /\ hrun' = s.run
    /\ UNCHANGED <<systemVars, searchVars, parseVars>>

\* The calls on the system object.
NextHeap ==
    \/ \E f \in HeapFactPool : HeapAddFact(f)
    \/ \E p \in HeapPropPool : HeapAddProposition(p)
    \/ \E t \in HeapTargetPool : \E d \in 1..MaxHeapDepth : HeapSearchStart(t, d)
    \/ HeapSearchStep

SpecHeap == InitHeap /\ [][NextHeap]_vars

\* ------------------------------------------------------------------------
\* Properties
\* ------------------------------------------------------------------------

AllFormulas(sys) == sys.facts \cup StepFormulas(sys)

\* Some fact or step formula of sys has the canonical string of formula.
HoldsCanonically(sys, formula) ==
    \E f \in AllFormulas(sys) : normalizeFormula(f) = normalizeFormula(formula)

\* What the rules return when called on steps of sys.
RuleApplications(sys) ==
    LET S == { sys.steps[n] : n \in 1..Len(sys.steps) }
    IN  { alphaRule(sys, s1, s2, t) : s1 \in S, s2 \in S, t \in {"and", "implies"} }
        \cup { betaRule(sys, s1, s2) : s1 \in S, s2 \in S }
        \cup { equivalenceRule(sys, s1, s2) : s1 \in S, s2 \in S }
        \cup { contrapositionRule(sys, s1) : s1 \in S }
        \cup { doubleNegationRule(sys, s1, m) : s1 \in S, m \in {"introduction", "elimination"} }

\* to has the facts of from and its steps, followed by steps that are each
\* the result of a rule applied to the steps before it.
ObtainedByRules(from, to) ==
    /\ to.facts = from.facts
    /\ Len(to.steps) >= Len(from.steps)
    /\ SubSeq(to.steps, 1, Len(from.steps)) = from.steps
    /\ \A k \in (Len(from.steps) + 1)..Len(to.steps) :
          \E r \in RuleApplications([to EXCEPT !.steps = SubSeq(to.steps, 1, k - 1)]) :
              r.ok /\ r.step = to.steps[k]

Returned == pc = "done" /\ Parseable(targetFormula)

\* C1: searchForProof reports proven only if the canonical string of the
\* target equals the canonical string of a fact or step formula of the
\* initial state or of a state obtained from it by rule applications, and it
\* reports not proven when it stops because the iteration bound or the
\* queue-size bound is exceeded.
C1_NoFalsePositive ==
    Returned =>
        /\ result.proven =>
              /\ ObtainedByRules(startSystem, proofState)
              /\ HoldsCanonically(proofState, targetFormula)
        /\ (iterations > MAX_ITERATIONS \/ Len(queue) > MAX_QUEUE_SIZE) => ~result.proven

\* C1 witness: a search that reports proven two rule applications away
\* from the initial state.
C1_Witness ==
    /\ Returned
    /\ result.proven
    /\ result.depth = 2
    /\ Len(proofState.steps) = Len(startSystem.steps) + 2
    /\ ~HoldsCanonically(startSystem, targetFormula)

\* C2: a search for a parseable target whose atoms all resolve returns, after
\* at most MAX_ITERATIONS dequeues, whatever maxDepth is.
C2_Terminates ==
    /\ pc # "running"
    /\ dequeues <= MAX_ITERATIONS
    /\ iterations <= MAX_ITERATIONS + 1

\* C2 witness: a search stopped by the iteration bound after MAX_ITERATIONS
\* dequeues.
C2_Witness ==
    /\ pc = "done"
    /\ iterations = MAX_ITERATIONS + 1
    /\ dequeues = MAX_ITERATIONS
    /\ Len(queue) > 0
    /\ Len(queue) <= MAX_QUEUE_SIZE

\* C3: when the canonical string of the target matches that of a fact or
\* step formula of the receiver, searchForProof returns proven at depth 0
\* with an empty path and empty missingFacts, records no missing fact and
\* expands (and dequeues) no state.
C3_AlreadyProved ==
    (Returned /\ HoldsCanonically(startSystem, targetFormula)) =>
        /\ result = [proven |-> TRUE, path |-> << >>, missingFacts |-> << >>,
                     skippedSteps |-> << >>, depth |-> 0]
        /\ system = startSystem
        /\ expansions = 0
        /\ dequeues = 0
        /\ iterations = 0

\* C3 witness: the target ~~X returned as proved against the fact X.
C3_Witness ==
    /\ Returned
    /\ targetFormula = NotOf(NotOf(X))
    /\ X \in startSystem.facts
    /\ targetFormula \notin AllFormulas(startSystem)
    /\ result.proven

\* The atoms of formula that do not resolve in sys, in order of occurrence.
UnresolvedAtoms(sys, formula) ==
    SelectSeq(getAtoms(parseFormula(formula).ast), LAMBDA a : ~isAtomResolvable(sys, a))

SeqRange(seq) == { seq[k] : k \in 1..Len(seq) }

\* C4: when the target is not already proved and some atom of it is
\* unresolvable, searchForProof returns not proven with the unresolved atom
\* names as missingFacts, adds them to the missingFacts of the system and
\* expands no state; in every other outcome the returned missingFacts is
\* empty.
C4_MissingFacts ==
    Returned =>
        IF /\ ~HoldsCanonically(startSystem, targetFormula)
           /\ UnresolvedAtoms(startSystem, targetFormula) # << >>
        THEN /\ ~result.proven
             /\ result.missingFacts = UnresolvedAtoms(startSystem, targetFormula)
             /\ \A k \in 1..Len(result.missingFacts) :
                    ~StartsWith(result.missingFacts[k], <<"~">>)
             /\ system = [startSystem EXCEPT !.missingFacts =
                              @ \cup SeqRange(result.missingFacts)]
             /\ expansions = 0
             /\ dequeues = 0
        ELSE /\ result.missingFacts = << >>
             /\ system = startSystem

\* C4 witness: a search that returned two missing facts.
C4_Witness ==
    /\ Returned
    /\ ~result.proven
    /\ Len(result.missingFacts) = 2
    /\ SeqRange(result.missingFacts) \subseteq system.missingFacts

LoadedXY == scenario = ScenarioXY /\ system.facts = {X, NotOf(Y)}

\* C5 as written: with the fact map {X: true, Y: false}, isAtomResolvable
\* is true for X, false for ~X, false for Y and true for ~Y.
C5_AsWritten ==
    LoadedXY =>
        /\ isAtomResolvable(system, X)
        /\ ~isAtomResolvable(system, NotOf(X))
        /\ ~isAtomResolvable(system, Y)
        /\ isAtomResolvable(system, NotOf(Y))

\* C5: with the fact map {X: true, Y: false}, loaded as the facts X and ~Y,
\* isAtomResolvable is true for X, false for ~X, true for Y (its negation
\* is a fact) and true for ~Y.
C5_Resolvable ==
    LoadedXY =>
        /\ isAtomResolvable(system, X)
        /\ ~isAtomResolvable(system, NotOf(X))
        /\ isAtomResolvable(system, Y)
        /\ isAtomResolvable(system, NotOf(Y))

\* C5 witness: the state loaded from the fact map, where Y itself is not
\* available and resolves all the same.
C5_Witness ==
    /\ LoadedXY
    /\ Y \notin AllFormulas(system)
    /\ isAtomResolvable(system, Y)

AtomPool == {X, NotOf(X), Y, NotOf(Y), P, NotOf(P), Q, NotOf(Q)}

Available(sys, name) == name \in AllFormulas(sys)

\* C6 as written: isAtomResolvable(a) is false only when neither the
\* positive nor the ~-negated form of the base name of a is available.
C6_AsWritten ==
    \A a \in AtomPool :
        ~isAtomResolvable(system, a) =>
            /\ ~Available(system, StripTildes(a))
            /\ ~Available(system, NotOf(StripTildes(a)))

\* C6: for a positive atom a, isAtomResolvable(a) is false exactly when
\* neither a nor ~a is available; for a negated atom ~b it is false exactly
\* when ~b is not available and b is.
C6_Unresolvable ==
    \A a \in AtomPool :
        ~isAtomResolvable(system, a) <=>
            IF StartsWith(a, <<"~">>)
            THEN ~Available(system, a) /\ Available(system, Slice(a, 1))
            ELSE ~Available(system, a) /\ ~Available(system, NotOf(a))

\* C6 witness: P is available in a step only and ~P does not resolve,
\* while Q, with neither form available, does not resolve either.
C6_Witness ==
    /\ P \in StepFormulas(system)
    /\ P \notin system.facts
    /\ ~isAtomResolvable(system, NotOf(P))
    /\ ~Available(system, Q)
    /\ ~isAtomResolvable(system, Q)

SearchedProcessOrder ==
    /\ scenario = ScenarioOrder
    /\ Returned
    /\ targetFormula = ProcessOrder

\* C7 as written: in the end-to-end scenario searchForProof("ProcessOrder")
\* reports not proven.
C7_AsWritten == SearchedProcessOrder => ~result.proven

\* C7: in the end-to-end scenario searchForProof("ProcessOrder") reports
\* proven at depth 0 with an empty path, because ProcessOrder is held by its
\* proposition step; the only other step that mentions it is the
\* implication formed by alpha/implies.
C7_ProcessOrder ==
    SearchedProcessOrder =>
        /\ result.proven
        /\ result.depth = 0
        /\ result.path = << >>
        /\ Len(system.steps) = 5
        /\ system.steps[1] = Step("Proposition", "fact", << >>, {ProcessOrder})
        /\ \A n \in 2..5 : ProcessOrder \notin system.steps[n].formulas
        /\ system.steps[4].formulas = { Compose(CustomerIsVIP, U2227, PaymentProcessed) }
        /\ system.steps[5].formulas =
              { Compose(Compose(CustomerIsVIP, U2227, PaymentProcessed), U2192, ProcessOrder) }

\* C7 witness: the search for ProcessOrder has returned in the end-to-end
\* scenario, with no step skipped.
C7_Witness ==
    /\ SearchedProcessOrder
    /\ result.proven
    /\ system.skippedSteps = << >>
    /\ system.facts = {CustomerIsVIP, PaymentProcessed}

\* C8: every name in the propositions list of a scenario is added as a step
\* holding that name, so a target equal to a declared proposition is
\* reported proven at depth 0 once the scenario is loaded.
C8_PropositionsAreSteps ==
    scenario # NoScenario =>
        /\ \A k \in 1..Len(scenario.propositions) :
              /\ k <= Len(system.steps)
              /\ system.steps[k] =
                    Step("Proposition", "fact", << >>, {scenario.propositions[k]})
        /\ (Returned /\ targetFormula \in SeqRange(scenario.propositions)) =>
              /\ result.proven
              /\ result.depth = 0
              /\ result.path = << >>
              /\ expansions = 0

\* C8 witness: a declared proposition that no step concludes is reported
\* proven.
C8_Witness ==
    /\ scenario = ScenarioProps
    /\ Returned
    /\ targetFormula = Q
    /\ result.proven
    /\ \A f \in AllFormulas(system) : ~isImplication(parseFormula(f).ast)

\* C9: for every accepted input, parsing the rendering of the parsed formula
\* gives an AST equal to the first one, and rendering that AST again gives
\* the same string.
C9_RoundTrip ==
    /\ pcParse \in {"reparsed", "done"} =>
          /\ reparsed.ok
          /\ astEquals(reparsed.ast, parsed.ast)
          /\ reparsed.ast = parsed.ast
    /\ pcParse = "done" => rerendered = rendered

\* C9 witness: a round trip of an input written with aliases, whose
\* rendering differs from it and needs its parentheses.
C9_Witness ==
    /\ pcParse = "done"
    /\ formulaStr = <<"N","O","T"," ","("," ","A"," ","O","R"," ","X","O","R","Y"," ",")">>
    /\ rendered = <<"~","(","A"," ",U2228," ","X","O","R","Y",")">>
    /\ rerendered = rendered
    /\ reparsed.ast = parsed.ast

\* Whether some negation in the AST has a negation as its operand.
RECURSIVE HasDoubleNegation(_)
HasDoubleNegation(ast) ==
    CASE ast.type = "atom"   -> FALSE
      [] ast.type = "unary"  -> isNegation(ast.operand) \/ HasDoubleNegation(ast.operand)
      [] ast.type = "binary" -> HasDoubleNegation(ast.left) \/ HasDoubleNegation(ast.right)

\* The number of negations on top of the AST, and what is under them.
RECURSIVE NegationCount(_)
NegationCount(ast) == IF isNegation(ast) THEN 1 + NegationCount(ast.operand) ELSE 0

RECURSIVE UnderNegations(_)
UnderNegations(ast) == IF isNegation(ast) THEN UnderNegations(ast.operand) ELSE ast

\* The AST with every run of n negations cut down to n mod 2 of them and
\* nothing else changed.
RECURSIVE Collapsed(_)
Collapsed(ast) ==
    LET core == UnderNegations(ast)
        inner == IF core.type = "binary"
                 THEN BinaryNode(core.operator, Collapsed(core.left), Collapsed(core.right))
                 ELSE core
    IN  IF NegationCount(ast) % 2 = 1 THEN UnaryNode("not", inner) ELSE inner

\* C10: the AST returned by parseFormula holds no negation of a negation at
\* any depth; it is the AST the parser built with every run of n negations
\* cut down to n mod 2 (~~~~A renders A, ~~~A renders ~A) and no other
\* change.
C10_DoubleNegation ==
    (pcParse \notin {"off", "input", "rejected"}) =>
        /\ ~HasDoubleNegation(parsed.ast)
        /\ parsed.ast = Collapsed(parseFormulaFromString(formulaStr).ast)
        /\ (pcParse # "parsed" /\ formulaStr = <<"~","~","~","~","A">>) => rendered = <<"A">>
        /\ (pcParse # "parsed" /\ formulaStr = <<"~","~","~","A">>) => rendered = <<"~","A">>

\* C10 witness: an input with a double negation under a binary operator,
\* rendered without it.
C10_Witness ==
    /\ pcParse = "rendered"
    /\ formulaStr = <<"A"," ",U2227," ","~"," ","~"," ","A">>
    /\ HasDoubleNegation(parseFormulaFromString(formulaStr).ast)
    /\ rendered = <<"(","A"," ",U2227," ","A",")">>

\* The tokens of a string the lexer accepts, without the EOF token.
TokensOf(str) == SubSeq(tokenize(str).tokens, 1, Len(tokenize(str).tokens) - 1)

Unparenthesized(toks) ==
    \A k \in 1..Len(toks) : toks[k].type \notin {"LPAREN", "RPAREN"}

\* The positions of the operator tag in the token sequence.
PositionsOf(toks, tag) ==
    { k \in 1..Len(toks) : toks[k].type = "OPERATOR" /\ toks[k].value = tag }

Max(S) == CHOOSE k \in S : \A j \in S : j <= k
Min(S) == CHOOSE k \in S : \A j \in S : k <= j

\* The node for the operator at position k with what is on either side.
RECURSIVE ReferenceAST(_)
SplitAt(toks, k) ==
    BinaryNode(toks[k].value, ReferenceAST(SubSeq(toks, 1, k - 1)),
                              ReferenceAST(SubSeq(toks, k + 1, Len(toks))))

\* The AST the reference grammar gives an unparenthesized token sequence:
\* the loosest operator present is the root; iff, or and and group to the
\* left (the root is the last occurrence), implies groups to the right (the
\* root is the first occurrence); not applies to what follows it.
ReferenceAST(toks) ==
    IF PositionsOf(toks, "iff") # {} THEN SplitAt(toks, Max(PositionsOf(toks, "iff")))
    ELSE IF PositionsOf(toks, "implies") # {}
    THEN SplitAt(toks, Min(PositionsOf(toks, "implies")))
    ELSE IF PositionsOf(toks, "or") # {} THEN SplitAt(toks, Max(PositionsOf(toks, "or")))
    ELSE IF PositionsOf(toks, "and") # {} THEN SplitAt(toks, Max(PositionsOf(toks, "and")))
    ELSE IF toks[1].type = "OPERATOR" THEN UnaryNode("not", ReferenceAST(Tail(toks)))
    ELSE createAtom(toks[1].value)

ParsedInput == pcParse \notin {"off", "input", "rejected"}
RenderedInput(str) == formulaStr = str /\ pcParse \in {"rendered", "reparsed", "done"}

\* C11: for every accepted input without parentheses the AST the parser
\* builds is the AST of the reference grammar (not tightest, then and, or
\* left-associative, implies right-associative, iff left-associative and
\* loosest), and parseFormula returns it with its double negations
\* collapsed; A ∧ B ∨ C renders ((A ∧ B) ∨ C), A ∨ B → C renders
\* ((A ∨ B) → C), A → B → C renders (A → (B → C)) and A ∧ B ∧ C renders
\* ((A ∧ B) ∧ C).
C11_Precedence ==
    /\ (ParsedInput /\ Unparenthesized(TokensOf(formulaStr))) =>
          /\ parseFormulaFromString(formulaStr).ast = ReferenceAST(TokensOf(formulaStr))
          /\ parsed.ast = normalizeAST(ReferenceAST(TokensOf(formulaStr)))
    /\ RenderedInput(<<"A"," ",U2227," ","B"," ",U2228," ","C">>) =>
          rendered = Compose(Compose(<<"A">>, U2227, <<"B">>), U2228, <<"C">>)
    /\ RenderedInput(<<"A"," ",U2228," ","B"," ",U2192," ","C">>) =>
          rendered = Compose(Compose(<<"A">>, U2228, <<"B">>), U2192, <<"C">>)
    /\ RenderedInput(<<"A"," ",U2192," ","B"," ",U2192," ","C">>) =>
          rendered = Compose(<<"A">>, U2192, Compose(<<"B">>, U2192, <<"C">>))
    /\ RenderedInput(<<"A"," ",U2227," ","B"," ",U2227," ","C">>) =>
          rendered = Compose(Compose(<<"A">>, U2227, <<"B">>), U2227, <<"C">>)

\* C11 witness: A → B → C parsed and rendered with the implication on the
\* right grouped first.
C11_Witness ==
    /\ RenderedInput(<<"A"," ",U2192," ","B"," ",U2192," ","C">>)
    /\ Unparenthesized(TokensOf(formulaStr))
    /\ pcParse = "rendered"
    /\ rendered = <<"(","A"," ",U2192," ","(","B"," ",U2192," ","C",")",")">>

\* The text of a token in a spelling style.
TokenText(tok, style) ==
    IF tok.type = "OPERATOR" THEN Spelling(tok.value, style)
    ELSE IF tok.type = "IDENTIFIER" THEN tok.value
    ELSE <<tok.value>>

\* The string with every operator spelled in the style, the tokens one
\* space apart.
Respell(str, style) ==
    Join([k \in 1..Len(TokensOf(str)) |-> TokenText(TokensOf(str)[k], style)], <<" ">>)

\* The types and values of the tokens of a string.
Lexed(str) ==
    [k \in 1..Len(tokenize(str).tokens) |->
        <<tokenize(str).tokens[k].type, tokenize(str).tokens[k].value>>]

\* C12: every alias of OPERATOR_MAPPINGS between two identifiers is lexed as
\* one operator token with its canonical tag; a parseable target respelled
\* in any alias style parses to the same AST, and searchForProof on the
\* same receiver with the same maxDepth reports the same proven for the
\* respelled target.
C12_Aliases ==
    /\ \A k \in 1..Len(OPERATOR_MAPPINGS) :
          Lexed(X \o <<" ">> \o OPERATOR_MAPPINGS[k].op \o <<" ">> \o Y)
              = << <<"IDENTIFIER", X>>, <<"OPERATOR", OPERATOR_MAPPINGS[k].tag>>,
                   <<"IDENTIFIER", Y>>, <<"EOF", "null">> >>
    /\ Returned =>
          \A style \in Styles :
              /\ parseFormulaFromString(Respell(targetFormula, style)).ok
              /\ parseFormulaFromString(Respell(targetFormula, style)).ast
                     = parseFormulaFromString(targetFormula).ast
              /\ astEquals(parseFormula(Respell(targetFormula, style)).ast,
                           parseFormula(targetFormula).ast)
              /\ searchForProof(startSystem, Respell(targetFormula, style), maxDepth)
                     .ls.result.proven = result.proven

\* C12 witness: the target (P <-> Q), found after one rule application,
\* whose respellings are different strings.
C12_Witness ==
    /\ Returned
    /\ targetFormula = ComposeAlias(P, <<"<", "-", ">">>, Q)
    /\ result.proven
    /\ result.depth = 1
    /\ Cardinality({ Respell(targetFormula, style) : style \in Styles } \cup {targetFormula}) = 5

\* No node of the AST lacks a child: an atom has a name, a negation an
\* operand, a binary node both sides, each of them a node of this kind.
RECURSIVE WellFormed(_)
WellFormed(ast) ==
    /\ "type" \in DOMAIN ast
    /\ CASE ast.type = "atom"   -> DOMAIN ast = {"type", "name"} /\ Len(ast.name) > 0
         [] ast.type = "unary"  -> /\ DOMAIN ast = {"type", "operator", "operand"}
                                   /\ ast.operator = "not"
                                   /\ WellFormed(ast.operand)
         [] ast.type = "binary" -> /\ DOMAIN ast = {"type", "operator", "left", "right"}
                                   /\ ast.operator \in BinaryTags
                                   /\ WellFormed(ast.left)
                                   /\ WellFormed(ast.right)
         [] OTHER -> FALSE

\* C13: parseFormula throws, with a position inside the input and without
\* returning an AST, for every input with an unbalanced parenthesis, a
\* binary operator lacking an operand, tokens after a complete formula or a
\* character that starts no identifier, parenthesis or operator alias; and
\* every AST it does return has all its children.
C13_ParseErrors ==
    /\ (formulaStr \in InvalidInputs /\ pcParse # "input") =>
          /\ pcParse = "rejected"
          /\ ~parsed.ok
          /\ DOMAIN parsed = {"ok", "position"}
          /\ parsed.position \in 0..Len(formulaStr)
    /\ ParsedInput =>
          /\ parsed.ok
          /\ WellFormed(parsed.ast)
          /\ WellFormed(parseFormulaFromString(formulaStr).ast)

\* C13 witness: the input "A ∧ XORY A" rejected at its trailing token.
C13_Witness ==
    /\ pcParse = "rejected"
    /\ formulaStr = <<"A"," ",U2227," ","X","O","R","Y"," ","A">>
    /\ formulaStr \in InvalidInputs
    /\ parsed.position = 9

\* The formula held by a step argument of the last call.
ArgFormula(k) == CHOOSE f \in lastCall.steps[k].formulas : TRUE

\* The last call was a binary rule in one of its variants, on two step
\* objects that hold one formula each.
BinaryRuleCalled ==
    /\ lastCall.op \in {"alphaRule", "betaRule", "equivalenceRule"}
    /\ lastCall.op = "alphaRule" => lastCall.subtype \in {"and", "implies"}
    /\ \A k \in 1..2 : Cardinality(lastCall.steps[k].formulas) = 1

\* The operator symbol a binary rule writes.
RuleSymbol ==
    CASE lastCall.op = "alphaRule" /\ lastCall.subtype = "and"     -> U2227
      [] lastCall.op = "alphaRule" /\ lastCall.subtype = "implies" -> U2192
      [] lastCall.op = "betaRule"                                  -> U2228
      [] lastCall.op = "equivalenceRule"                           -> U2194

\* C14: alphaRule('and'), alphaRule('implies'), betaRule and
\* equivalenceRule called on steps holding A and B return a step whose only
\* formula is the string "(" A " " op " " B ")" with op one of the symbols
\* for and, implies, or, iff, whose antecedents are the two steps in order,
\* and that step is the one step appended to the system.
C14_TextualComposition ==
    BinaryRuleCalled =>
        /\ ~lastCall.threw
        /\ lastCall.returned.formulas =
              { <<"(">> \o ArgFormula(1) \o <<" ", RuleSymbol, " ">> \o ArgFormula(2) \o <<")">> }
        /\ lastCall.returned.from = lastCall.steps
        /\ system = [lastCall.before EXCEPT !.steps = Append(@, lastCall.returned)]

\* C14 witness: equivalenceRule on a step holding ~~~~(P -> ~Q) and the
\* reference to the fact X returned (~~~~(P -> ~Q) ↔ X), the strings taken
\* as written.
C14_Witness ==
    /\ lastCall.op = "equivalenceRule"
    /\ lastCall.steps = << Step("Proposition", "fact", << >>, {ImplicationAlias}),
                           Step("FactRef", "factRef", << >>, {X}) >>
    /\ lastCall.returned.formulas =
          { <<"(">> \o ImplicationAlias \o <<" ", U2194, " ", "X", ")">> }
    /\ Len(system.steps) = 2

\* The last call was contrapositionRule on a step object holding one
\* formula.
ContrapositionCalled ==
    /\ lastCall.op = "contrapositionRule"
    /\ Cardinality(lastCall.steps[1].formulas) = 1

\* The step holds a formula that parses to an implication at the top.
HoldsImplication(step) ==
    /\ Cardinality(step.formulas) = 1
    /\ \A f \in step.formulas : parseFormula(f).ok /\ isImplication(parseFormula(f).ast)

\* The sides of the implication held by the step argument, rendered.
Antecedent == astToString(parseFormula(ArgFormula(1)).ast.left)
Consequent == astToString(parseFormula(ArgFormula(1)).ast.right)

\* C15: contrapositionRule on a step holding a formula that parses to
\* (A → B) returns and appends one step holding "(~" B " → ~" A ")"; on a
\* step whose formula parses to anything else it throws and the system is
\* as before.
C15_Contraposition ==
    ContrapositionCalled =>
        IF HoldsImplication(lastCall.steps[1])
        THEN /\ ~lastCall.threw
             /\ lastCall.returned.formulas =
                   { <<"(", "~">> \o Consequent \o <<" ", U2192, " ", "~">> \o Antecedent
                         \o <<")">> }
             /\ lastCall.returned.from = lastCall.steps
             /\ system = [lastCall.before EXCEPT !.steps = Append(@, lastCall.returned)]
        ELSE /\ lastCall.threw
             /\ system = lastCall.before

\* C15 witness: contraposition of the step holding ~~~~(P -> ~Q) returned
\* (~~Q → ~P).
C15_Witness ==
    /\ ContrapositionCalled
    /\ ArgFormula(1) = ImplicationAlias
    /\ ~lastCall.threw
    /\ lastCall.returned.formulas = { <<"(","~","~","Q"," ",U2192," ","~","P",")">> }
    /\ system.steps[Len(system.steps)] = lastCall.returned

\* The string begins with two tildes.
DoublyNegated(str) == Len(str) >= 2 /\ str[1] = "~" /\ str[2] = "~"

\* The last call was doubleNegationRule in the given mode on a step object
\* holding one formula.
DoubleNegationCalled(mode) ==
    /\ lastCall.op = "doubleNegationRule"
    /\ lastCall.subtype = mode
    /\ Cardinality(lastCall.steps[1].formulas) = 1

\* The step argument of the last call is what introduction made of a step
\* holding a formula that does not begin with ~~.
ArgumentIntroduced ==
    /\ lastCall.steps[1].ruleType = "doubleNegIntro"
    /\ Len(lastCall.steps[1].from) = 1
    /\ \A f \in lastCall.steps[1].from[1].formulas : ~DoublyNegated(f)

\* C16: doubleNegationRule in introduction mode returns a step holding
\* "~~" A when A does not begin with ~~ and A itself when it does; in
\* elimination mode it returns A without its first two characters when A
\* begins with ~~ and A itself otherwise; elimination of a step that
\* introduction made from a step holding A, A not beginning with ~~, returns
\* a step holding A.
C16_DoubleNegationRule ==
    /\ DoubleNegationCalled("introduction") =>
          /\ ~lastCall.threw
          /\ lastCall.returned.formulas =
                { IF DoublyNegated(ArgFormula(1)) THEN ArgFormula(1)
                  ELSE <<"~", "~">> \o ArgFormula(1) }
    /\ DoubleNegationCalled("elimination") =>
          /\ ~lastCall.threw
          /\ lastCall.returned.formulas =
                { IF DoublyNegated(ArgFormula(1))
                  THEN SubSeq(ArgFormula(1), 3, Len(ArgFormula(1)))
                  ELSE ArgFormula(1) }
          /\ ArgumentIntroduced =>
                lastCall.returned.formulas = lastCall.steps[1].from[1].formulas

\* C16 witness: elimination of the step that introduction made from the
\* proposition P returned a step holding P.
C16_Witness ==
    /\ DoubleNegationCalled("elimination")
    /\ ArgumentIntroduced
    /\ ArgFormula(1) = <<"~", "~", "P">>
    /\ lastCall.returned.formulas = {P}
    /\ Len(system.steps) = 3

\* The rule methods.
RuleOps ==
    {"alphaRule", "betaRule", "contrapositionRule", "doubleNegationRule", "equivalenceRule"}

\* Some step argument of the last call does not hold exactly one formula.
WrongArity ==
    \E k \in 1..Len(lastCall.steps) : Cardinality(lastCall.steps[k].formulas) # 1

\* The last call named a subtype outside the variants of alpha.
UnknownAlphaSubtype ==
    lastCall.op = "alphaRule" /\ lastCall.subtype \notin {"and", "implies"}

\* The last call named a mode outside the variants of double negation.
UnknownDoubleNegationMode ==
    /\ lastCall.op = "doubleNegationRule"
    /\ lastCall.subtype \notin {"introduction", "elimination"}

\* The last call was contraposition on a step whose formula is no
\* implication.
NotAnImplication ==
    /\ lastCall.op = "contrapositionRule"
    /\ ~WrongArity
    /\ ~HoldsImplication(lastCall.steps[1])

\* The last call raised and left steps and facts as they were.
RaisedWithoutEffect ==
    /\ lastCall.threw
    /\ system.steps = lastCall.before.steps
    /\ system.facts = lastCall.before.facts

\* C17 as written: a rule called with a step that does not hold exactly one
\* formula, alpha or doubleNegation called with a subtype outside its
\* variants, and contraposition called on a non-implication raise an error
\* and leave steps and facts as before the call.
C17_AsWritten ==
    /\ lastCall.op \in RuleOps
    /\ WrongArity \/ UnknownAlphaSubtype \/ UnknownDoubleNegationMode \/ NotAnImplication
    => RaisedWithoutEffect

\* C17, what the code does: the same, except that doubleNegationRule with
\* a mode other than introduction or elimination, on a step holding one
\* formula, does not raise: it appends an elimination step.
C17_RaisesExceptMode ==
    /\ (/\ lastCall.op \in RuleOps
        /\ WrongArity \/ UnknownAlphaSubtype \/ NotAnImplication)
       => RaisedWithoutEffect
    /\ (UnknownDoubleNegationMode /\ ~WrongArity) =>
          /\ ~lastCall.threw
          /\ system.steps = Append(lastCall.before.steps, lastCall.returned)
          /\ lastCall.returned.ruleType = "doubleNegElim"

\* C17 witness: alphaRule with the subtype "xor" on two steps holding one
\* formula each raised, the system holding its two steps as before.
C17_Witness ==
    /\ UnknownAlphaSubtype
    /\ ~WrongArity
    /\ RaisedWithoutEffect
    /\ Len(system.steps) = 2

\* doubleNegationRule with the mode "removal" on the step holding
\* ~~~~(P -> ~Q) did not raise and appended a step holding ~~(P -> ~Q).
C17_ModeAccepted ==
    /\ UnknownDoubleNegationMode
    /\ ~WrongArity
    /\ ArgFormula(1) = ImplicationAlias
    /\ ~lastCall.threw
    /\ Len(system.steps) = Len(lastCall.before.steps) + 1

\* The step taken is a call that appends: a rule application that did not
\* raise, or addProposition.
AppendingCall ==
    /\ calls' = calls + 1
    /\ \/ lastCall'.op = "addProposition"
       \/ lastCall'.op \in RuleOps /\ ~lastCall'.threw

\* C18: in every step of the system the steps it held before are still
\* there, unchanged and in the same places; a rule application that did not
\* raise and addProposition put exactly one step, the one they return, at
\* the end; every other call (addFact, searchForProof, a rule application
\* that raised) leaves steps as they were.
C18_AppendOnly ==
    [][ /\ Len(system'.steps) >= Len(system.steps)
        /\ SubSeq(system'.steps, 1, Len(system.steps)) = system.steps
        /\ AppendingCall => system'.steps = Append(system.steps, lastCall'.returned)
        /\ ~AppendingCall => system'.steps = system.steps ]_vars

\* C18 witness: three calls have appended a step each, the last of them a
\* rule application on the two earlier steps, which are still the first and
\* second step.
C18_Witness ==
    /\ Len(system.steps) = 3
    /\ lastCall.op \in RuleOps
    /\ ~lastCall.threw
    /\ lastCall.steps = <<system.steps[2], system.steps[1]>>
    /\ system.steps = Append(lastCall.before.steps, lastCall.returned)
    /\ system.steps[1].origin = "Proposition"
    /\ system.steps[2].origin = "Proposition"

\* The number of elements of the steps arrays of the systems lo .. hi.
RECURSIVE TotalSteps(_, _, _)
TotalSteps(h, lo, hi) ==
    IF hi < lo THEN 0
    ELSE IF hi = lo THEN Len(StepsOf(h, lo))
    ELSE TotalSteps(h, lo, (lo + hi) \div 2) + TotalSteps(h, ((lo + hi) \div 2) + 1, hi)

\* The step objects held by the steps arrays of the systems.
HeldSteps(h) ==
    UNION { {StepsOf(h, sys)[k] : k \in 1..Len(StepsOf(h, sys))} : sys \in 1..Len(h.systems) }

\* No two systems have the same facts Set or the same steps array, no step
\* object is an element of two steps arrays or twice of one, and no two step
\* objects have the same formulas Set.
OwnObjects(h) ==
    /\ Cardinality({h.systems[sys].facts : sys \in 1..Len(h.systems)}) = Len(h.systems)
    /\ Cardinality({h.systems[sys].steps : sys \in 1..Len(h.systems)}) = Len(h.systems)
    /\ Cardinality(HeldSteps(h)) = TotalSteps(h, 1, Len(h.systems))
    /\ Cardinality({h.stepObjs[id].formulas : id \in 1..Len(h.stepObjs)}) = Len(h.stepObjs)

\* The clone holds the facts of the system it was made of and that system's
\* steps, followed by at most one step more.
ParentKept(h, clone) ==
    /\ SystemView(h, clone).facts = SystemView(h, h.systems[clone].clonedFrom).facts
    /\ Len(StepsOf(h, clone)) \in
          { Len(StepsOf(h, h.systems[clone].clonedFrom)),
            Len(StepsOf(h, h.systems[clone].clonedFrom)) + 1 }
    /\ SubSeq(SystemView(h, clone).steps, 1,
              Len(StepsOf(h, h.systems[clone].clonedFrom)))
          = SystemView(h, h.systems[clone].clonedFrom).steps

\* C19: while searchForProof runs and when it has returned, proven or not,
\* the facts and steps of the receiver are what they were at the call;
\* every system the search made is a clone with a facts Set, a steps array,
\* step objects and formula Sets of its own, so that the step a rule pushed
\* on one system is an element of no other system's steps; and every clone
\* holds the steps of the system it was made of, which that system still
\* holds, and at most the one new step.
C19_CopyOnExpand ==
    /\ hrun.pc \in {"running", "done"} =>
          /\ SystemView(heap, Receiver).facts = hrun.before.facts
          /\ SystemView(heap, Receiver).steps = hrun.before.steps
    /\ OwnObjects(heap)
    /\ \A clone \in 2..Len(heap.systems) : ParentKept(heap, clone)

\* C19 witness: a search has returned with a proof at depth 2 after it
\* expanded a clone of the receiver: a clone of a clone holds four steps,
\* the clone it was made of three and the receiver its two.
C19_Witness ==
    /\ hrun.pc = "done"
    /\ hrun.result.proven
    /\ hrun.result.depth = 2
    /\ Len(StepsOf(heap, Receiver)) = 2
    /\ \E clone \in 2..Len(heap.systems) :
          /\ Len(StepsOf(heap, clone)) = 4
          /\ Len(StepsOf(heap, heap.systems[clone].clonedFrom)) = 3
          /\ heap.systems[heap.systems[clone].clonedFrom].clonedFrom = Receiver

\* The system the loader has built when it has processed the first k steps
\* of the scenario.
LoadPrefix(sc, k) == loadGentzenScenario([sc EXCEPT !.steps = SubSeq(@, 1, k)])

\* The step objects and missing facts the loader finds for step k.
Resolved(sc, k) ==
    ResolveFrom(LoadPrefix(sc, k - 1), sc.steps[k].from, 1,
                [stepObjects |-> << >>, missingFacts |-> << >>])

\* Applying step k of the scenario raises a rule-application error: the
\* loader found a step object for every formula of `from`, called the rule,
\* and the rule threw.
StepRaises(sc, k) ==
    /\ Len(Resolved(sc, k).missingFacts) = 0
    /\ Len(Resolved(sc, k).stepObjects) = Len(sc.steps[k].from)
    /\ ~ScenarioRuleResult(LoadPrefix(sc, k - 1), sc.steps[k],
                           Resolved(sc, k).stepObjects).ok

\* The loader has returned the system and nothing else was called on it.
Loaded == scenario # NoScenario /\ lastCall.op = "loadGentzenScenario"

\* The raising step k left no step and the loader went on: steps are as
\* they were before step k when step k has been processed, and the system
\* returned holds, after them, what the following steps appended.
SkippedOver(sc, k) ==
    /\ LoadPrefix(sc, k).steps = LoadPrefix(sc, k - 1).steps
    /\ system.steps =
          ProcessScenarioSteps(LoadPrefix(sc, k - 1), sc.steps, k + 1).steps

\* skippedSteps has a record of step k.
Recorded(sys, k) ==
    \E n \in 1..Len(sys.skippedSteps) : sys.skippedSteps[n].stepIndex = k

\* C20 as written: a scenario step whose rule raises leaves no step, the
\* loader goes on to the following steps, and the step is recorded in
\* skippedSteps.
C20_AsWritten ==
    Loaded =>
        \A k \in 1..Len(scenario.steps) :
            StepRaises(scenario, k) =>
                SkippedOver(scenario, k) /\ Recorded(system, k)

\* C20: a scenario step whose rule raises leaves no step, and the loader
\* goes on to the following steps; the step is not recorded in skippedSteps
\* (the catch clause only logs a warning): the system returned is the one
\* the loader builds when it passes over the step, and skippedSteps holds
\* only records of steps that were skipped because facts were missing.
C20_RaisingStepPassedOver ==
    Loaded =>
        /\ \A k \in 1..Len(scenario.steps) :
              StepRaises(scenario, k) =>
                  /\ SkippedOver(scenario, k)
                  /\ ~Recorded(system, k)
                  /\ system = ProcessScenarioSteps(LoadPrefix(scenario, k - 1),
                                                   scenario.steps, k + 1)
        /\ \A n \in 1..Len(system.skippedSteps) :
              Len(system.skippedSteps[n].missingFacts) > 0

\* C20 witness: the scenario whose steps 1 and 2 raise, whose step 3 names
\* the missing fact Y and whose step 4 applies has been loaded: the system
\* holds the two propositions and (P ∨ Q), and skippedSteps the record of
\* step 3 alone.
C20_Witness ==
    /\ Loaded
    /\ scenario = ScenarioErrors
    /\ StepRaises(scenario, 1)
    /\ StepRaises(scenario, 2)
    /\ Len(system.steps) = 3
    /\ system.steps[3].formulas = {Compose(P, U2228, Q)}
    /\ Len(system.skippedSteps) = 1
    /\ system.skippedSteps[1].stepIndex = 3

\* The formula is held by a step of the system, up to normalization.
HeldByStep(sys, f) ==
    \E n \in 1..Len(sys.steps) : \E g \in sys.steps[n].formulas :
        normalizeFormula(g) = normalizeFormula(f)

\* The atom names of the formula, as a set.
AtomNames(f) == { getAtoms(parseFormula(f).ast)[i] : i \in 1..Len(getAtoms(parseFormula(f).ast)) }

\* Neither the atom nor its negation is a fact or a step formula.
Unresolvable(sys, a) ==
    /\ ~isFactAvailable(sys, a)
    /\ ~isFactAvailable(sys, <<"~">> \o a)

\* The unresolvable atoms of the formulas of `from` that are neither a fact
\* nor held by a step.
UnresolvedNames(sys, from) ==
    UNION { { a \in AtomNames(from[i]) : Unresolvable(sys, a) } :
              i \in { j \in 1..Len(from) : from[j] \notin sys.facts
                                            /\ ~HeldByStep(sys, from[j]) } }

\* skippedSteps holds, for step k of the scenario, a record with its index,
\* rule, subtype and from list and the names as its missing facts.
RecordedMissing(sys, sc, k, names) ==
    \E n \in 1..Len(sys.skippedSteps) :
        /\ sys.skippedSteps[n].stepIndex = k
        /\ sys.skippedSteps[n].rule = sc.steps[k].rule
        /\ sys.skippedSteps[n].from = sc.steps[k].from
        /\ { sys.skippedSteps[n].missingFacts[i] :
               i \in 1..Len(sys.skippedSteps[n].missingFacts) } = names

\* C21: a scenario step k one of whose from formulas is neither a fact nor
\* held by a step and has an unresolvable atom appends no step; skippedSteps
\* of the system returned has a record with the index k and the unresolved
\* atom names, missingFacts contains those names, and the steps of the
\* system returned are those the loader builds from the steps after k.
C21_MissingFactsSkip ==
    Loaded =>
        \A k \in 1..Len(scenario.steps) :
            UnresolvedNames(LoadPrefix(scenario, k - 1), scenario.steps[k].from) # {} =>
                /\ LoadPrefix(scenario, k).steps = LoadPrefix(scenario, k - 1).steps
                /\ RecordedMissing(system, scenario, k,
                       UnresolvedNames(LoadPrefix(scenario, k - 1), scenario.steps[k].from))
                /\ UnresolvedNames(LoadPrefix(scenario, k - 1), scenario.steps[k].from)
                      \subseteq system.missingFacts
                /\ system.steps =
                      ProcessScenarioSteps(LoadPrefix(scenario, k - 1), scenario.steps,
                                           k + 1).steps

\* C21 witness: step 3 of the loaded scenario is a beta step on P and Y, Y
\* being nowhere; the system returned records step 3 with the missing fact
\* Y, has Y in missingFacts, and holds the step (P ∨ Q) appended by step 4.
C21_Witness ==
    /\ Loaded
    /\ scenario.name = "errors"
    /\ UnresolvedNames(LoadPrefix(scenario, 2), scenario.steps[3].from) = {Y}
    /\ RecordedMissing(system, scenario, 3, {Y})
    /\ Y \in system.missingFacts
    /\ system.steps[Len(system.steps)].formulas = {Compose(P, U2228, Q)}

\* The facts the claim has the loader add for one entry of the fact map.
EntryFacts(e) ==
    IF e.value THEN {e.name}
    ELSE IF e.name[1] = "~" THEN {}
    ELSE {<<"~">> \o e.name}

\* The facts after the first k entries of the fact map.
FactsAfter(factMap, k) == LoadFacts(NewSystem, SubSeq(factMap, 1, k), 1).facts

\* C22: each entry (name, value) of the fact map adds as a fact exactly
\* name when value is true, ~name when value is false and name does not
\* start with ~, nothing when value is false and name starts with ~; the
\* facts of the system are those and no others, a name without ~ whose
\* entry is false is no fact while its negation is, and ~name is no fact
\* for a name with ~ whose entry is false.
C22_AutoNegation ==
    scenario # NoScenario =>
        /\ \A k \in 1..Len(scenario.factMap) :
              /\ FactsAfter(scenario.factMap, k) =
                    FactsAfter(scenario.factMap, k - 1) \cup EntryFacts(scenario.factMap[k])
              /\ ~scenario.factMap[k].value =>
                    IF scenario.factMap[k].name[1] = "~"
                    THEN <<"~">> \o scenario.factMap[k].name \notin system.facts
                    ELSE /\ scenario.factMap[k].name \notin system.facts
                         /\ <<"~">> \o scenario.factMap[k].name \in system.facts
        /\ system.facts =
              UNION { EntryFacts(scenario.factMap[k]) : k \in 1..Len(scenario.factMap) }

\* C22 witness: the loaded fact map is {B: false, ~C: false}; ~B is the
\* only fact.
C22_Witness ==
    /\ Loaded
    /\ \E i, j \in 1..Len(scenario.factMap) :
          /\ scenario.factMap[i] = [name |-> B, value |-> FALSE]
          /\ scenario.factMap[j] = [name |-> NotOf(C), value |-> FALSE]
    /\ system.facts = {NotOf(B)}

\* C22 witness of a true entry whose name starts with ~: ~Y is a fact.
C22_WitnessNegatedName ==
    /\ Loaded
    /\ \E i \in 1..Len(scenario.factMap) :
          scenario.factMap[i] = [name |-> NotOf(Y), value |-> TRUE]
    /\ NotOf(Y) \in system.facts
    /\ NotOf(NotOf(Y)) \notin system.facts

\* The rule applications expandOneLevel tries on a parent: every ordered
\* pair of steps with each binary combo, every step with each unary combo.
Candidates(parent) ==
    { [i |-> i, j |-> j, c |-> c, binary |-> TRUE] :
        i \in 1..Len(parent.steps), j \in 1..Len(parent.steps),
        c \in 1..Len(BinaryCombos) }
    \cup
    { [i |-> i, j |-> i, c |-> c, binary |-> FALSE] :
        i \in 1..Len(parent.steps), c \in 1..Len(UnaryCombos) }

\* What the rule of a candidate does on a copy of the parent.
CandidateResult(parent, cand) ==
    IF cand.binary
    THEN CASE BinaryCombos[cand.c].rule = "alpha" ->
                alphaRule(cloneSystem(parent), parent.steps[cand.i], parent.steps[cand.j],
                          BinaryCombos[cand.c].subtype)
           [] BinaryCombos[cand.c].rule = "beta" ->
                betaRule(cloneSystem(parent), parent.steps[cand.i], parent.steps[cand.j])
           [] OTHER ->
                equivalenceRule(cloneSystem(parent), parent.steps[cand.i],
                                parent.steps[cand.j])
    ELSE IF UnaryCombos[cand.c].rule = "contraposition"
    THEN contrapositionRule(cloneSystem(parent), parent.steps[cand.i])
    ELSE doubleNegationRule(cloneSystem(parent), parent.steps[cand.i],
                            UnaryCombos[cand.c].mode)

\* The formulas of the parent with their leading ~~ pairs stripped.
KnownStripped(parent) ==
    { canonicalDoubleNeg(f) : f \in StepFormulas(parent) \cup parent.facts }

\* The candidate raised an error or produced an already-known formula.
Fruitless(parent, cand) ==
    \/ ~CandidateResult(parent, cand).ok
    \/ \A f \in CandidateResult(parent, cand).step.formulas :
          canonicalDoubleNeg(f) \in KnownStripped(parent)

\* The successor has the parent's facts and steps and one step more, whose
\* formula stripped is none of the parent's.
NewStepSuccessor(parent, kid) ==
    /\ Len(kid.steps) = Len(parent.steps) + 1
    /\ SubSeq(kid.steps, 1, Len(parent.steps)) = parent.steps
    /\ kid.facts = parent.facts
    /\ Cardinality(kid.steps[Len(kid.steps)].formulas) = 1
    /\ \A f \in kid.steps[Len(kid.steps)].formulas :
          canonicalDoubleNeg(f) \notin KnownStripped(parent)

\* The successors are what the fruitful candidates built, one for each.
SuccessorsOf(parent, kids) ==
    /\ \A n \in 1..Len(kids) : NewStepSuccessor(parent, kids[n])
    /\ \A cand \in Candidates(parent) :
          IF Fruitless(parent, cand)
          THEN \A n \in 1..Len(kids) :
                  ~CandidateResult(parent, cand).ok
                  \/ kids[n] # CandidateResult(parent, cand).sys
          ELSE \E n \in 1..Len(kids) : kids[n] = CandidateResult(parent, cand).sys
    /\ Len(kids) = Cardinality({ cand \in Candidates(parent) : ~Fruitless(parent, cand) })

\* C23: every successor expandOneLevel returns for the system has exactly
\* one step more than the system, and that step's formula, leading ~~ pairs
\* stripped, is none of the stripped fact and step formulas of the system;
\* a candidate whose rule raised an error or produced a known formula is
\* not returned, every other candidate is.
C23_Successors == SuccessorsOf(system, expandOneLevel(system))

\* C23 witness: a search has expanded the system, which has successors,
\* a candidate that raised an error and one that produced a known formula.
C23_Witness ==
    /\ lastCall.op = "searchForProof"
    /\ expansions > 0
    /\ Len(expandOneLevel(system)) > 0
    /\ \E cand \in Candidates(system) : ~CandidateResult(system, cand).ok
    /\ \E cand \in Candidates(system) :
          CandidateResult(system, cand).ok /\ Fruitless(system, cand)

\* The signature of a system object.
SignatureOf(h, sys) == getSystemSignature(SystemView(h, sys))

\* The system objects in the queue.
Queued(run) == { run.queue[n].system : n \in 1..Len(run.queue) }

\* The queue entries of runAfter that were not in the queue of run.
Enqueued(run, runAfter) ==
    { runAfter.queue[n] : n \in { m \in 1..Len(runAfter.queue) :
                                    runAfter.queue[m].system \notin Queued(run) } }

\* The signatures of a set of system objects.
SignaturesOf(h, systems) == { SignatureOf(h, sys) : sys \in systems }

\* The signatures are visited and as many as the systems they are of.
DistinctVisited(systems, signatures, seen) ==
    /\ signatures \subseteq seen
    /\ Cardinality(signatures) = Cardinality(systems)

\* visited holds the signature of the initial state and of every queued
\* state, and no two queued states have the same signature.
VisitedCoversQueue(h, run) ==
    /\ SignatureOf(h, Receiver) \in run.visited
    /\ Cardinality(Queued(run)) = Len(run.queue)
    /\ DistinctVisited(Queued(run), SignaturesOf(h, Queued(run)), run.visited)

\* The call starts the loop with the initial state alone, at depth 0, and
\* its signature alone in visited.
StartsVisited(hAfter, runAfter) ==
    /\ runAfter.queue = << [system |-> Receiver, depth |-> 0, path |-> << >>] >>
    /\ runAfter.visited = {SignatureOf(hAfter, Receiver)}

\* The new queue entries are children of the dequeued state, placed at its
\* depth plus one; their signatures were not visited, are visited now and
\* differ from one another; visited grows by them and by nothing else.
EnqueuedUnvisited(run, hAfter, runAfter, new, signatures) ==
    /\ \A e \in new :
          /\ e.depth = Head(run.queue).depth + 1
          /\ hAfter.systems[e.system].clonedFrom = Head(run.queue).system
    /\ signatures \cap run.visited = {}
    /\ Cardinality(signatures) = Cardinality(new)
    /\ runAfter.visited = run.visited \cup signatures

\* One run of the loop body: what it enqueues was unvisited, and the states
\* left in the queue stay in their order, the new ones behind them.
EnqueuesUnvisited(run, hAfter, runAfter) ==
    /\ EnqueuedUnvisited(run, hAfter, runAfter, Enqueued(run, runAfter),
           SignaturesOf(hAfter, { e.system : e \in Enqueued(run, runAfter) }))
    /\ \/ runAfter.queue = run.queue
       \/ /\ Len(runAfter.queue) >= Len(run.queue) - 1
          /\ SubSeq(runAfter.queue, 1, Len(run.queue) - 1) = Tail(run.queue)

\* C24: during searchForProof visited holds the signature of the initial
\* state and of every state ever enqueued, no two states ever enqueued have
\* the same signature, a child whose signature is visited is not enqueued,
\* and an enqueued child is placed at its parent's depth plus one.
C24_VisitedSignatures ==
    /\ [](hrun.pc = "running" => VisitedCoversQueue(heap, hrun))
    /\ [][ /\ (hrun.pc = "idle" /\ hrun'.pc = "running") => StartsVisited(heap', hrun')
           /\ hrun.pc = "running" => EnqueuesUnvisited(hrun, heap', hrun') ]_vars

\* C24 witness: the search is running; a child at depth 2 is in the queue,
\* and a later child of another parent, with a formula new to that parent
\* and the same signature, is not.
C24_Witness ==
    /\ hrun.pc = "running"
    /\ \E a \in Queued(hrun) : \E b \in 2..Len(heap.systems) :
          /\ b > a
          /\ b \notin Queued(hrun)
          /\ heap.systems[a].clonedFrom # Receiver
          /\ heap.systems[b].clonedFrom # heap.systems[a].clonedFrom
          /\ SignatureOf(heap, b) # SignatureOf(heap, heap.systems[b].clonedFrom)
          /\ SignatureOf(heap, b) = SignatureOf(heap, a)
          /\ SignatureOf(heap, b) \in hrun.visited

\* At the loop condition a hard bound is exceeded: MAX_ITERATIONS states
\* have been dequeued and one more would be, or more than MAX_QUEUE_SIZE
\* states are queued.
HardBoundExceeded ==
    /\ pc = "running"
    /\ Len(queue) > 0
    /\ \/ dequeues >= MAX_ITERATIONS
       \/ Len(queue) > MAX_QUEUE_SIZE

\* The state at the head of the queue has reached the step ceiling and the
\* loop body is about to expand it.
CeilingAtHead ==
    /\ pc = "running"
    /\ Len(queue) > 0
    /\ ~HardBoundExceeded
    /\ Len(Head(queue).system.steps) >= MAX_STEPS
    /\ Head(queue).depth < maxDepth
    /\ ~isProved(Head(queue).system, targetFormula)

\* The search returns not proven, having dequeued and expanded nothing.
StopsNotProven ==
    /\ pc' = "done"
    /\ ~result'.proven
    /\ result' = result
    /\ queue' = queue
    /\ visited' = visited
    /\ dequeues' = dequeues
    /\ expansions' = expansions

C25_WitnessCeiling ==
    /\ pc = "done"
    /\ Len(startSystem.steps) = MAX_STEPS
    /\ expansions = 1
    /\ queue = << >>
    /\ ~result.proven

\* C25 witness of the iteration bound.
C25_WitnessIterations ==
    /\ pc = "done"
    /\ outcome = "bound"
    /\ dequeues = MAX_ITERATIONS
    /\ Len(queue) <= MAX_QUEUE_SIZE

\* The loop body is about to expand the state at the head of the queue.
Expanding ==
    /\ pc = "running"
    /\ Len(queue) > 0
    /\ ~HardBoundExceeded
    /\ ~isProved(Head(queue).system, targetFormula)
    /\ Head(queue).depth < maxDepth

\* The candidates that contain the target.
Proving(kids) == { n \in 1..Len(kids) : isProved(kids[n], targetFormula) }

\* The queue entries the step has added.
Added == { queue'[n] : n \in Len(queue)..Len(queue') }

\* The freshly expanded candidates are tested in order: the first that
\* contains the target ends the search, proven at the depth of the expanded
\* state plus one; when none does the search goes on, and what it has
\* enqueued are candidates, at that depth.
TestedInOrder(kids) ==
    IF Proving(kids) # {}
    THEN /\ pc' = "done"
         /\ outcome' = "child"
         /\ result'.proven
         /\ result'.depth = Head(queue).depth + 1
         /\ \E n \in Proving(kids) :
               /\ proofState' = kids[n]
               /\ \A m \in Proving(kids) : n <= m
    ELSE /\ pc' = "running"
         /\ ~result'.proven
         /\ \A e \in Added :
               /\ e.depth = Head(queue).depth + 1
               /\ \E n \in 1..Len(kids) : kids[n] = e.system

\* The queue holds the states in the order of their depths, which differ
\* by one at most.
QueueInDepthOrder ==
    /\ \A n \in 1..Len(queue) - 1 : queue[n].depth <= queue[n + 1].depth
    /\ Len(queue) > 0 => queue[Len(queue)].depth <= queue[1].depth + 1

\* C26: searchForProof reports proven as soon as a freshly expanded
\* candidate contains the target; the states are dequeued in the order of
\* their depths, each tested when it was generated, so that no dequeued
\* state contains the target, and when the search reports proven with depth
\* d >= 1 every state of a depth below d - 1 has been expanded and the
\* states still queued have depth d - 1 or d.
C26_ShortestRound ==
    /\ [](/\ QueueInDepthOrder
          /\ (pc = "done" /\ result.proven /\ result.depth >= 1) =>
                /\ isProved(proofState, targetFormula)
                /\ ~isProved(startSystem, targetFormula)
                /\ \A n \in 1..Len(queue) :
                      queue[n].depth \in {result.depth - 1, result.depth})
    /\ [][ /\ Expanding => TestedInOrder(expandOneLevel(Head(queue).system))
           /\ pc = "running" => outcome' # "dequeued" ]_vars

\* C26 witness: a search has returned proven at depth 2, from a candidate
\* made of a state of depth 1, with states of depth 1 and 2 still queued.
C26_Witness ==
    /\ pc = "done"
    /\ outcome = "child"
    /\ result.proven
    /\ result.depth = 2
    /\ Len(proofState.steps) = Len(startSystem.steps) + 2
    /\ \E n \in 1..Len(queue) : queue[n].depth = 1
    /\ \E n \in 1..Len(queue) : queue[n].depth = 2

\* The path entries of the states on the way to a state.
StepNames == <<"step_1", "step_2", "step_3", "step_4", "step_5">>

\* The state queued at depth d holds d steps more than the initial state,
\* and its path is step_1 .. step_d.
OneStepPerLevel(entry) ==
    /\ Len(entry.system.steps) = Len(startSystem.steps) + entry.depth
    /\ SubSeq(entry.system.steps, 1, Len(startSystem.steps)) = startSystem.steps
    /\ entry.system.facts = startSystem.facts
    /\ entry.path = SubSeq(StepNames, 1, entry.depth)

\* C27: every state enqueued at depth d holds exactly d steps more than
\* the initial state; when searchForProof reports proven with depth d >= 1
\* then d <= maxDepth, the path is step_1 .. step_(d-1), final_step, and the
\* proving state holds d steps more than the initial state; with maxDepth 0
\* no state is expanded.
C27_OneRulePerLevel ==
    /\ \A n \in 1..Len(queue) : OneStepPerLevel(queue[n])
    /\ (pc = "done" /\ result.proven /\ result.depth >= 1) =>
          /\ result.depth <= maxDepth
          /\ result.path = SubSeq(StepNames, 1, result.depth - 1) \o <<"final_step">>
          /\ Len(proofState.steps) = Len(startSystem.steps) + result.depth
    /\ maxDepth = 0 => expansions = 0

\* C27 witness: a search has returned proven at depth 2 with the path
\* step_1, final_step while a state of depth 2, holding two steps more than
\* the initial state, is queued.
C27_Witness ==
    /\ pc = "done"
    /\ result.proven
    /\ result.depth = 2
    /\ maxDepth >= 2
    /\ result.path = <<"step_1", "final_step">>
    /\ \E n \in 1..Len(queue) :
          /\ queue[n].depth = 2
          /\ Len(queue[n].system.steps) = Len(startSystem.steps) + 2

\* C27 witness of maxDepth 0: the initial state was dequeued and not expanded.
C27_WitnessDepthZero ==
    /\ pc = "done"
    /\ lastCall.op = "searchForProof"
    /\ maxDepth = 0
    /\ dequeues = 1
    /\ expansions = 0
    /\ ~result.proven

\* Some fact of sys has the canonical string of the formula.
FactHoldsCanonically(sys, formula) ==
    \E f \in sys.facts : normalizeFormula(f) = normalizeFormula(formula)

\* C28: expandOneLevel on a state without steps returns no successors,
\* whatever its facts, and searchForProof on such a state reports proven if
\* and only if the canonical string of the target is that of some fact; the
\* search leaves nothing in its queue.
C28_FactsAreNoInputs ==
    /\ system.steps = << >> => expandOneLevel(system) = << >>
    /\ (Returned /\ startSystem.steps = << >>) =>
          /\ result.proven <=> FactHoldsCanonically(startSystem, targetFormula)
          /\ queue = << >>
          /\ result.proven => (result.depth = 0 /\ expansions = 0)

\* C28 witness: the system has facts and no steps; the search for Y, which
\* resolves through the fact ~Y, has expanded the initial state to depth 1
\* and returned not proven.
C28_Witness ==
    /\ Returned
    /\ startSystem.steps = << >>
    /\ NotOf(Y) \in startSystem.facts
    /\ targetFormula = Y
    /\ maxDepth = 1
    /\ expansions = 1
    /\ ~result.proven

\* The normalized AST of the parseable formula is a binary node.
IsBinary(f) == parseFormula(f).ast.type = "binary"

\* The formula is written in parentheses and is a binary formula.
ParenthesizedBinary(f) ==
    /\ Len(f) >= 2
    /\ f[1] = "("
    /\ f[Len(f)] = ")"
    /\ Parseable(f)
    /\ IsBinary(f)

\* Every fact and step formula of sys parses.
AllParseable(sys) == \A f \in AllFormulas(sys) : Parseable(f)

\* The formulas of the steps the state holds beyond those of the initial
\* state are parenthesized binary formulas.
RetainedBinary(sys) ==
    \A k \in Len(startSystem.steps) + 1..Len(sys.steps) :
        \A f \in sys.steps[k].formulas : ParenthesizedBinary(f)

\* C29: on a state whose formulas all parse, a search for a target whose
\* normalized AST is an atom or a negation reports proven only at depth 0,
\* the initial state containing the target and nothing being expanded; the
\* formulas the queued states hold beyond those of the initial state are
\* parenthesized binary formulas, and so is the formula that proved a
\* target at a depth of 1 or more.
C29_NonBinaryTargets ==
    (Returned /\ AllParseable(startSystem)) =>
        /\ (~IsBinary(targetFormula) /\ result.proven) =>
              /\ result.depth = 0
              /\ expansions = 0
              /\ HoldsCanonically(startSystem, targetFormula)
        /\ \A n \in 1..Len(queue) : RetainedBinary(queue[n].system)
        /\ (result.proven /\ result.depth >= 1) =>
              /\ IsBinary(targetFormula)
              /\ RetainedBinary(proofState)

\* C29 witness: the search for the negation ~A to depth 3 has expanded
\* states and returned not proven, with states holding contrapositives in
\* its queue.
C29_Witness ==
    /\ Returned
    /\ AllParseable(startSystem)
    /\ targetFormula = NotOf(A)
    /\ ~IsBinary(targetFormula)
    /\ maxDepth = 3
    /\ expansions > 1
    /\ ~result.proven
    /\ \E n \in 1..Len(queue) :
          \E f \in queue[n].system.steps[Len(queue[n].system.steps)].formulas :
              StartsWith(f, <<"(", "~">>)

\* C29 witness of a target that is a negation and held by the initial state.
C29_WitnessDepthZero ==
    /\ Returned
    /\ ~IsBinary(targetFormula)
    /\ targetFormula = NotOf(NotOf(NotOf(Y)))
    /\ result.proven
    /\ result.depth = 0

\* The string matches [A-Za-z][A-Za-z0-9_]*.
MatchesIdentifier(str) ==
    /\ Len(str) >= 1
    /\ str[1] \in UpperLetters \cup LowerLetters
    /\ \A i \in 1..Len(str) : str[i] \in UpperLetters \cup LowerLetters \cup Digits \cup {"_"}

\* The keyword aliases.
KeywordAliases ==
    { <<"A","N","D">>, <<"O","R">>, <<"N","O","T">>, <<"I","F","F">>,
      <<"I","M","P","L","I","E","S">> }

\* The string begins with a keyword alias.
BeginsWithKeyword(str) == \E kw \in KeywordAliases : StartsWith(str, kw)

\* The string is lexed as one IDENTIFIER token carrying the whole string.
OneIdentifier(str) ==
    /\ tokenize(str).ok
    /\ Lexed(str) = << <<"IDENTIFIER", str>>, <<"EOF", "null">> >>

\* parseFormula has returned the Atom named by the input.
ParsedToAtom ==
    pcParse # "input" => (parsed.ok /\ parsed.ast = createAtom(formulaStr))

\* C30 as stated: every string matching [A-Za-z][A-Za-z0-9_]* other than
\* AND, OR, NOT, IFF and IMPLIES is lexed as one IDENTIFIER token carrying
\* the whole string and parses to the Atom with that name.
C30_AsWritten ==
    (MatchesIdentifier(formulaStr) /\ formulaStr \notin KeywordAliases) =>
        /\ OneIdentifier(formulaStr)
        /\ ParsedToAtom

\* C30, what the lexer does: a string matching [A-Za-z][A-Za-z0-9_]* that
\* does not begin with AND, OR, NOT, IFF or IMPLIES is lexed as one
\* IDENTIFIER token carrying the whole string and parses to the Atom with
\* that name; of one that begins with such a keyword the first token is an
\* OPERATOR token, and it does not parse to that Atom.
C30_UnlessKeywordPrefix ==
    MatchesIdentifier(formulaStr) =>
        IF BeginsWithKeyword(formulaStr)
        THEN /\ ~getNextToken(formulaStr, 0).error
             /\ getNextToken(formulaStr, 0).token.type = "OPERATOR"
             /\ ~OneIdentifier(formulaStr)
             /\ pcParse # "input" =>
                   (~parsed.ok \/ parsed.ast # createAtom(formulaStr))
        ELSE /\ OneIdentifier(formulaStr)
             /\ ParsedToAtom

\* C30 witness: XORY, which holds OR inside, has been parsed to the Atom
\* XORY.
C30_Witness ==
    /\ formulaStr = <<"X","O","R","Y">>
    /\ MatchesIdentifier(formulaStr)
    /\ pcParse = "parsed"
    /\ OneIdentifier(formulaStr)
    /\ parsed.ast = createAtom(formulaStr)

\* C30, the name ORDER: lexed as the operator OR and the identifier DER,
\* and rejected by the parser.
C30_WitnessOrder ==
    /\ formulaStr = <<"O","R","D","E","R">>
    /\ pcParse = "rejected"
    /\ Lexed(formulaStr) = << <<"OPERATOR", "or">>, <<"IDENTIFIER", <<"D","E","R">> >>,
                              <<"EOF", "null">> >>

\* C30, the name NOTE: parsed as the negation of E.
C30_WitnessNote ==
    /\ formulaStr = <<"N","O","T","E">>
    /\ pcParse = "parsed"
    /\ parsed.ast = negate(createAtom(<<"E">>))

====
